---------------------------- MODULE Spec2Model ----------------------------
(***************************************************************************)
(* dice_box: a build-schedule simulator.                                   *)
(*                                                                         *)
(* The module models the dependency queue (dependency_queue.rs), the Cargo *)
(* hint provider, the replay hint provider (hints/repeat_schedule.rs), the *)
(* discrete-event Runner (runner.rs), the lowering of a unit graph to     *)
(* artifacts (unit_graph.rs) and the timings parser (timings.rs).          *)
(*                                                                         *)
(* Conventions:                                                            *)
(*   - Option<T> is a set with at most one element ({} is None).           *)
(*   - BTreeMap<K, V> is a function whose DOMAIN is the key set; BTreeSet  *)
(*     is a set; iteration order is the derived Ord of Artifact (Iter).    *)
(*   - f64 durations are counted in ticks of 1/TicksPerMilli millisecond;  *)
(*     `(duration * 1000.) as u64` truncates ticks to whole milliseconds.  *)
(***************************************************************************)
EXTENDS Integers, Sequences, FiniteSets, TLC

VARIABLES
    pc,                  \* position of the driver (main.rs / lib.rs / calculate loop)
    builder,             \* DependencyQueueBuilder {dep_map, reverse_dep_map}
    queue,               \* DependencyQueue {dep_map, reverse_dep_map, hints}
    timings,             \* Runner.timings: Artifact -> duration in ticks
    num_threads,         \* opts.num_threads, handed to Runner::new
    current_time,        \* Runner.current_time (ms)
    running_tasks,       \* Runner.running_tasks: Seq(Option<Task>)
    running_tasks_count, \* Runner.running_tasks_count
    panic,               \* message of the assertion / expect / unwrap that aborted, "" if none
    log,                 \* the trace!() lines of the Runner: Scheduling / Finished events
    last_call,           \* the last call made on the queue API and what it returned
    run,                 \* the run in progress: 1 first, 2 identical rerun, 3 replay
    first_run,           \* Option<log and Makespan of the first run>
    makespan,            \* Option<Makespan>: what calculate returned
    graph,               \* UnitGraph.units handed to unit_graph_to_artifacts
    ret,                 \* the `ret` map of unit_graph_to_artifacts
    unit_idx,            \* index of the next unit of the lowering loop
    parse_out,           \* the `out` map of timings::parse
    timing,              \* Option<TimingInfo>: the record deserialized from the current line
    line_typ,            \* Option<ArtifactType>: `typ`, what timing.node_type() returned
    line_no,             \* number of lines of `contents` consumed by parse
    n_hints,             \* the `n_hints` vector NHintsProvider::new is filling
    top_n_entries        \* the entries of top_n_entries still to be inserted

vars == <<pc, builder, queue, timings, num_threads, current_time, running_tasks,
          running_tasks_count, panic, log, last_call, run, first_run,
          makespan, graph, ret, unit_idx, parse_out, timing, line_typ,
          line_no, n_hints, top_n_entries>>

queueVars  == <<builder, queue, last_call>>
runnerVars == <<timings, num_threads, current_time, running_tasks, running_tasks_count, log,
                run, first_run, makespan>>
lowerVars  == <<graph, ret, unit_idx>>
parseVars  == <<parse_out, timing, line_typ, line_no>>
hintVars   == <<n_hints, top_n_entries>>

---------------------------------------------------------------------------
(* Bounds of the model *)

\* greatest duration of a timing, in ticks
MaxDuration == 4
\* greatest num_threads handed to Runner::new
MaxThreads == 2
\* greatest length of the vector handed to RepeatSchedule::new
MaxOrderLen == 2
\* greatest number of units of a unit graph
MaxUnits == 3

\* greatest number of lines of a timings file
MaxLines == 2
\* greatest raw duration and rmeta_time of a timing record, in ticks
MaxRawDuration == 1
\* greatest length of Target.crate_types handed to node_type
MaxCrateTypes == 2
MaxHintDuration == 2

\* ticks per millisecond: a duration of d ticks is d / TicksPerMilli ms
TicksPerMilli == 2

---------------------------------------------------------------------------
(* artifact.rs *)

ArtifactType == {"BuildScriptBuild", "BuildScriptRun", "Metadata", "Codegen", "Link"}

\* derived Ord of the enum: declaration order
ArtifactTypeOrd(typ) ==
    CASE typ = "BuildScriptBuild" -> 0
      [] typ = "BuildScriptRun"   -> 1
      [] typ = "Metadata"         -> 2
      [] typ = "Codegen"          -> 3
      [] typ = "Link"             -> 4

PackageIds == {"a", "b"}

\* String order of the package ids of the model
PackageIdOrd(p) == CASE p = "a" -> 0 [] p = "b" -> 1 [] p = "c" -> 2 [] OTHER -> 3

Artifact(typ, package_id) == [typ |-> typ, package_id |-> package_id]

\* derived Ord of Artifact: typ first, then package_id
ArtifactLt(x, y) ==
    \/ ArtifactTypeOrd(x.typ) < ArtifactTypeOrd(y.typ)
    \/ /\ x.typ = y.typ
       /\ PackageIdOrd(x.package_id) < PackageIdOrd(y.package_id)

\* The artifacts a builder of the model is fed with
Artifacts == {Artifact("Metadata", "a"), Artifact("Metadata", "b"),
              Artifact("Codegen", "a")}

---------------------------------------------------------------------------
(* BTreeMap / BTreeSet helpers *)

EmptyMap == [x \in {} |-> {}]

Put(m, k, v) == [x \in (DOMAIN m) \cup {k} |-> IF x = k THEN v ELSE m[x]]

Remove(m, k) == [x \in (DOMAIN m) \ {k} |-> m[x]]

First(S) == CHOOSE x \in S : \A y \in S : x = y \/ ArtifactLt(x, y)

RECURSIVE Iter(_)
\* the elements of a BTreeSet (or the keys of a BTreeMap) in iteration order
Iter(S) == IF S = {} THEN <<>> ELSE <<First(S)>> \o Iter(S \ {First(S)})

Range(s) == {s[i] : i \in 1..Len(s)}

---------------------------------------------------------------------------
(* dependency_queue.rs: DependencyQueueBuilder *)

BuilderNew == [dep_map |-> EmptyMap, reverse_dep_map |-> EmptyMap]

\* queue that records no reverse edge
BuilderQueueNoReverse(b, key, dependencies) ==
    IF key \in DOMAIN b.dep_map
    THEN b
    ELSE [dep_map |-> Put(b.dep_map, key, dependencies),
          reverse_dep_map |-> b.reverse_dep_map]

\* queue that replaces the dependencies of a key that is already present
BuilderQueueOverwrite(b, key, dependencies) ==
    [dep_map |-> Put(b.dep_map, key, dependencies),
     reverse_dep_map |->
         [d \in (DOMAIN b.reverse_dep_map) \cup dependencies |->
             (IF d \in DOMAIN b.reverse_dep_map THEN b.reverse_dep_map[d] ELSE {})
             \cup (IF d \in dependencies THEN {key} ELSE {})]]

BuilderQueue(b, key, dependencies) ==
    IF key \in DOMAIN b.dep_map
    THEN b
    ELSE [dep_map |-> Put(b.dep_map, key, dependencies),
          reverse_dep_map |->
              [d \in (DOMAIN b.reverse_dep_map) \cup dependencies |->
                  (IF d \in DOMAIN b.reverse_dep_map THEN b.reverse_dep_map[d] ELSE {})
                  \cup (IF d \in dependencies THEN {key} ELSE {})]]

BuilderFinish(b, hints) ==
    [dep_map |-> b.dep_map, reverse_dep_map |-> b.reverse_dep_map, hints |-> hints]

NoHints == [kind |-> "none"]
NoQueue == BuilderFinish(BuilderNew, NoHints)

---------------------------------------------------------------------------
(* dependency_queue.rs: depth, reverse_dependencies, CargoHints *)

RECURSIVE depth(_, _, _)
RECURSIVE DepthLoop(_, _, _, _)

\* the `for dep in map.get(key)` loop of depth: acc = [panic, results, set]
DepthLoop(deps, i, map, acc) ==
    IF i > Len(deps) \/ acc.panic
    THEN acc
    ELSE LET d == depth(deps[i], map, acc.results)
         IN  DepthLoop(deps, i + 1, map,
                       [panic |-> d.panic, results |-> d.results,
                        set |-> acc.set \cup d.set])

\* [panic |-> the cycle assertion failed, results |-> the memo, set |-> the returned set]
depth(key, map, results) ==
    IF key \in DOMAIN results
    THEN [panic |-> results[key] = {}, results |-> results, set |-> results[key]]
    ELSE LET deps == IF key \in DOMAIN map THEN Iter(map[key]) ELSE <<>>
             done == DepthLoop(deps, 1, map,
                               [panic |-> FALSE, results |-> Put(results, key, {}),
                                set |-> {key}])
         IN  IF done.panic
             THEN done
             ELSE [panic |-> FALSE, results |-> Put(done.results, key, done.set),
                   set |-> done.set]

RECURSIVE ReverseDependenciesLoop(_, _, _, _)
ReverseDependenciesLoop(keys, i, map, acc) ==
    IF i > Len(keys) \/ acc.panic
    THEN acc
    ELSE ReverseDependenciesLoop(keys, i + 1, map, depth(keys[i], map, acc.results))

\* [panic, results]: results is the returned map `out`
reverse_dependencies(deps) ==
    ReverseDependenciesLoop(Iter(DOMAIN deps.dep_map), 1, deps.reverse_dep_map,
                            [panic |-> FALSE, results |-> EmptyMap, set |-> {}])

dependent_cost(typ) == IF typ = "Codegen" THEN 0 ELSE 10

RECURSIVE SumCost(_)
SumCost(S) == IF S = {} THEN 0
              ELSE LET x == CHOOSE y \in S : TRUE
                   IN  dependent_cost(x.typ) + SumCost(S \ {x})

\* a constructor that sums the costs of the set alone
CargoHintsNewSetOnly(deps, separate_codegen) ==
    LET out == reverse_dependencies(deps)
    IN  [panic |-> out.panic,
         hints |-> [kind |-> "cargo",
                    priority |-> [n \in DOMAIN out.results |-> SumCost(out.results[n])],
                    separate_codegen |-> separate_codegen]]

\* CargoHints::new: [panic, hints]
CargoHintsNew(deps, separate_codegen) ==
    LET out == reverse_dependencies(deps)
    IN  [panic |-> out.panic,
         hints |-> [kind |-> "cargo",
                    priority |-> [n \in DOMAIN out.results |->
                                     dependent_cost(n.typ) + SumCost(out.results[n])],
                    separate_codegen |-> separate_codegen]]

\* a key that ignores the kind of the candidate: the priority alone decides
CargoKeyPriorityOnly(h, artifact) == <<1, h.priority[artifact]>>

\* the key of max_by_key in CargoHints::suggest_next, a (bool, usize) pair
CargoKey(h, artifact) ==
    <<IF h.separate_codegen \/ artifact.typ = "Codegen" THEN 1 ELSE 0,
      h.priority[artifact]>>

KeyLe(k1, k2) == k1[1] < k2[1] \/ (k1[1] = k2[1] /\ k1[2] <= k2[2])

\* a provider whose choice among candidates of equal key depends on an
\* unordered container: any element of maximum key
CargoSuggestNextAnyMax(h, candidates) ==
    {candidates[j] : j \in {j \in 1..Len(candidates) :
        \A k \in 1..Len(candidates) :
            KeyLe(CargoKey(h, candidates[k]), CargoKey(h, candidates[j]))}}

\* Iterator::max_by_key returns the LAST element of maximum key
CargoSuggestNext(h, candidates) ==
    {candidates[i] : i \in {j \in 1..Len(candidates) :
        /\ \A k \in 1..Len(candidates) :
              KeyLe(CargoKey(h, candidates[k]), CargoKey(h, candidates[j]))
        /\ \A k \in (j + 1)..Len(candidates) :
              CargoKey(h, candidates[k]) # CargoKey(h, candidates[j])}}

---------------------------------------------------------------------------
(* hints/repeat_schedule.rs *)

RECURSIVE Unique(_)
\* Itertools::unique: keeps the first occurrence of every element
Unique(s) ==
    IF s = <<>> THEN <<>>
    ELSE LET init == Unique(SubSeq(s, 1, Len(s) - 1))
         IN  IF s[Len(s)] \in Range(init) THEN init ELSE Append(init, s[Len(s)])

RepeatScheduleNew(artifacts) == [kind |-> "repeat", order |-> Unique(artifacts)]

\* suggest_next that pops the front before looking for it among the candidates
RepeatSuggestNextPopsFirst(h, candidates) ==
    IF h.order = <<>>
    THEN [item |-> {}, hints |-> h]
    ELSE [item  |-> {Head(h.order)} \cap Range(candidates),
          hints |-> [h EXCEPT !.order = Tail(h.order)]]

\* a suggest_next that looks for the first stored element that is a candidate
RepeatSuggestNextFirstReady(h, candidates) ==
    LET ready == {i \in 1..Len(h.order) : h.order[i] \in Range(candidates)}
    IN  IF ready = {}
        THEN [item |-> {}, hints |-> h]
        ELSE LET i == CHOOSE k \in ready : \A l \in ready : k <= l
             IN  [item  |-> {h.order[i]},
                  hints |-> [h EXCEPT !.order = SubSeq(h.order, 1, i - 1) \o
                                                 SubSeq(h.order, i + 1, Len(h.order))]]

\* [item |-> Option<Artifact>, hints |-> the provider afterwards]
RepeatSuggestNext(h, candidates) ==
    IF h.order = <<>> \/ Head(h.order) \notin Range(candidates)
    THEN [item |-> {}, hints |-> h]
    ELSE [item |-> {Head(h.order)}, hints |-> [h EXCEPT !.order = Tail(h.order)]]

---------------------------------------------------------------------------
(* hints.rs: NHintsProvider *)

Sibling(typ, artifact) == Artifact(typ, artifact.package_id)

\* the iter_mut loop of NHintsProvider::new over the cloned timings
FoldLoop(t, old_timings) ==
    [k \in DOMAIN t |->
        IF k.typ = "Metadata" /\ Sibling("Codegen", k) \in DOMAIN old_timings
        THEN t[k] + old_timings[Sibling("Codegen", k)]
        ELSE t[k]]

\* timings.retain(..): the closure adds the Codegen duration to the Metadata
\* entry and keeps the entries that are not Codegen
FoldRetain(t, old_timings) ==
    [k \in {x \in DOMAIN t : x.typ # "Codegen"} |->
        IF k.typ = "Metadata" /\ Sibling("Codegen", k) \in DOMAIN old_timings
        THEN t[k] + old_timings[Sibling("Codegen", k)]
        ELSE t[k]]

\* the local `timings` of NHintsProvider::new after the loop and the retain
FoldedTimings(old_timings) == FoldRetain(FoldLoop(old_timings, old_timings), old_timings)

\* slice::sort_by_key, a stable sort: key is a function on the elements
StableSortByKey(s, key) ==
    LET rank(i) == Cardinality({j \in 1..Len(s) :
                       \/ key[s[j]] < key[s[i]]
                       \/ key[s[j]] = key[s[i]] /\ j < i}) + 1
    IN  [r \in 1..Len(s) |-> s[CHOOSE i \in 1..Len(s) : rank(i) = r]]

Reverse(s) == [i \in 1..Len(s) |-> s[Len(s) + 1 - i]]

Take(s, n) == SubSeq(s, 1, IF Len(s) < n THEN Len(s) ELSE n)

\* the number of entries kept by take(..)
TopN == 75

\* top_n_entries: by duration, longest first, cut to TopN, then stably sorted
\* by the number of direct dependants
TopNEntries(deps, t) ==
    LET by_duration == StableSortByKey(Iter(DOMAIN t), t)
        longest     == Take(Reverse(by_duration), TopN)
        dependants  == [n \in Range(longest) |->
                           IF n \in DOMAIN deps.reverse_dep_map
                           THEN Cardinality(deps.reverse_dep_map[n]) ELSE 0]
    IN  StableSortByKey(longest, dependants)

\* Option<usize>, 0-based: Iterator::rposition and Iterator::position, the
\* predicate given as the set of elements that satisfy it
RPosition(s, matching) ==
    {i \in 0..(Len(s) - 1) :
        s[i + 1] \in matching /\ \A j \in (i + 1)..(Len(s) - 1) : s[j + 1] \notin matching}

Position(s, matching) ==
    {i \in 0..(Len(s) - 1) :
        s[i + 1] \in matching /\ \A j \in 0..(i - 1) : s[j + 1] \notin matching}

UnwrapOr(option, default) == IF option = {} THEN default ELSE CHOOSE x \in option : TRUE

\* an insertion index that looks at the durations alone
InsertionIndexByTime(hints, item, t, rd) ==
    [panic |-> "",
     index |-> UnwrapOr(Position(hints, {entry \in Range(hints) : t[entry] < t[item]}), Len(hints))]

\* the closure computing insertion_index: [panic, index], index 0-based
InsertionIndex(hints, item, t, rd) ==
    IF hints = <<>>
    THEN [panic |-> "", index |-> 0]
    ELSE LET self_time          == t[item]
             my_dependants      == rd[item]
             my_last_dependency == RPosition(hints, {entry \in Range(hints) : item \in rd[entry]})
             my_first_dependant == Position(hints, my_dependants)
             from               == UnwrapOr({i + 1 : i \in my_last_dependency}, 0)
             to                 == UnwrapOr(my_first_dependant, Len(hints))
         IN  IF /\ my_last_dependency # {}
                /\ my_first_dependant # {}
                /\ ~(UnwrapOr(my_last_dependency, 0) < UnwrapOr(my_first_dependant, 0))
             THEN [panic |-> "assertion failed: my_last_dependency < my_first_dependant",
                   index |-> 0]
             ELSE IF my_first_dependant # {} /\ {i + 1 : i \in my_last_dependency} = my_first_dependant
             THEN [panic |-> "", index |-> UnwrapOr(my_first_dependant, 0)]
             ELSE [panic |-> "",
                   index |-> UnwrapOr({res + from : res \in
                                          Position(SubSeq(hints, from + 1, to),
                                                   {entry \in Range(hints) :
                                                       t[entry] < self_time})},
                                      to)]

\* Vec::insert(index, element), index 0-based
InsertAt(s, index, element) ==
    SubSeq(s, 1, index) \o <<element>> \o SubSeq(s, index + 1, Len(s))

RECURSIVE InsertLoop(_, _, _, _)
\* `for item in top_n_entries.into_iter()`: acc = [panic, n_hints]
InsertLoop(entries, t, rd, acc) ==
    IF entries = <<>> \/ acc.panic # ""
    THEN acc
    ELSE LET at == InsertionIndex(acc.n_hints, Head(entries), t, rd)
         IN  InsertLoop(Tail(entries), t, rd,
                        IF at.panic # ""
                        THEN [acc EXCEPT !.panic = at.panic]
                        ELSE [acc EXCEPT !.n_hints = InsertAt(@, at.index, Head(entries))])

\* the NHintsProvider value; inner is built by CargoHints::new(dependencies)
\* and read by no method
NHints(hints, t, rd) ==
    [kind |-> "nhints", n_hints |-> hints, timings |-> t, reverse_dependencies |-> rd]

\* NHintsProvider::new: [panic, hints]
NHintsProviderNew(deps, old_timings) ==
    LET t   == FoldedTimings(old_timings)
        out == reverse_dependencies(deps)
    IN  IF out.panic
        THEN [panic |-> "cycle in DependencyQueue", hints |-> NoHints]
        ELSE LET done == InsertLoop(TopNEntries(deps, t), t, out.results,
                                    [panic |-> "", n_hints |-> <<>>])
             IN  [panic |-> done.panic,
                  hints |-> NHints(done.n_hints, t, out.results)]

\* max_by_key over a list: Option, the LAST element of maximum key
MaxByKey(s, key) ==
    {s[i] : i \in {j \in 1..Len(s) :
        /\ \A k \in 1..Len(s) : key[s[k]] <= key[s[j]]
        /\ \A k \in (j + 1)..Len(s) : key[s[k]] # key[s[j]]}}

\* min_by_key over a list: Option, the FIRST element of minimum key
MinByKey(s, key) ==
    {s[i] : i \in {j \in 1..Len(s) :
        /\ \A k \in 1..Len(s) : key[s[j]] <= key[s[k]]
        /\ \A k \in 1..(j - 1) : key[s[k]] # key[s[j]]}}

\* the position a candidate gets in the or_else branch of suggest_next
HintPosition(h, artifact) ==
    UnwrapOr(Position(h.n_hints, h.reverse_dependencies[artifact]),
             Len(h.n_hints))

\* a suggest_next that returns the first candidate
NHintsSuggestNextFirst(h, candidates) ==
    IF candidates = <<>> THEN {} ELSE {Head(candidates)}

\* NHintsProvider::suggest_next: Option<Artifact>
NHintsSuggestNext(h, candidates) ==
    LET codegen == Position(candidates, {c \in Range(candidates) : c.typ = "Codegen"})
        listed  == SelectSeq(candidates, LAMBDA c : c \in Range(h.n_hints))
        direct_hit == MaxByKey(listed, [c \in Range(listed) |->
                                          IF c \in DOMAIN h.timings THEN h.timings[c] ELSE 0])
    IN  IF codegen # {}
        THEN {candidates[i + 1] : i \in codegen}
        ELSE IF direct_hit # {}
        THEN direct_hit
        ELSE MinByKey(candidates, [c \in Range(candidates) |-> HintPosition(h, c)])

---------------------------------------------------------------------------
(* dependency_queue.rs: DependencyQueue *)

\* dequeue without the deps.is_empty() test on the last pending dependency
CandidatesOnePending(dep_map) ==
    Iter({a \in DOMAIN dep_map : Cardinality(dep_map[a]) <= 1})

\* the `candidates` vector of dequeue, in dep_map order
Candidates(dep_map) == Iter({a \in DOMAIN dep_map : dep_map[a] = {}})

\* HintProvider::suggest_next, dispatched on the provider:
\* the set of possible (item, provider afterwards) outcomes
SuggestNext(h, candidates) ==
    CASE h.kind = "cargo" ->
            IF candidates = <<>>
            THEN {[item |-> {}, hints |-> h]}
            ELSE {[item |-> {a}, hints |-> h] : a \in CargoSuggestNext(h, candidates)}
      [] h.kind = "repeat" -> {RepeatSuggestNext(h, candidates)}
      [] h.kind = "nhints" ->
            {[item |-> NHintsSuggestNext(h, candidates), hints |-> h]}
      [] OTHER -> {[item |-> {}, hints |-> h]}

\* dequeue that returns the key and leaves it in dep_map
DequeueKeepsKey(q) ==
    {[key   |-> s.item,
      queue |-> [dep_map |-> q.dep_map,
                 reverse_dep_map |-> q.reverse_dep_map,
                 hints |-> s.hints]]
     : s \in SuggestNext(q.hints, Candidates(q.dep_map))}

\* DependencyQueue::dequeue: the set of possible outcomes
\* [key |-> Option<Artifact>, queue |-> the queue afterwards]
Dequeue(q) ==
    {[key   |-> s.item,
      queue |-> [dep_map |-> IF s.item = {} THEN q.dep_map
                             ELSE Remove(q.dep_map, CHOOSE k \in s.item : TRUE),
                 reverse_dep_map |-> q.reverse_dep_map,
                 hints |-> s.hints]]
     : s \in SuggestNext(q.hints, Candidates(q.dep_map))}

IsEmpty(q) == DOMAIN q.dep_map = {}

QueueLen(q) == Cardinality(DOMAIN q.dep_map)

RECURSIVE FinishLoop(_, _, _, _)
\* the `for dep in reverse_deps.iter()` loop of finish
\* acc = [panic, dep_map, result]
FinishLoop(reverse_deps, i, key, acc) ==
    IF i > Len(reverse_deps) \/ acc.panic # ""
    THEN acc
    ELSE LET dep == reverse_deps[i]
         IN  IF dep \notin DOMAIN acc.dep_map
             THEN [acc EXCEPT !.panic = "unwrap on None: dep_map.get_mut(dep)"]
             ELSE IF key \notin acc.dep_map[dep]
             THEN [acc EXCEPT !.panic = "assertion failed: edges.remove(key)"]
             ELSE LET edges == acc.dep_map[dep] \ {key}
                  IN  FinishLoop(reverse_deps, i + 1, key,
                        [panic   |-> "",
                         dep_map |-> [acc.dep_map EXCEPT ![dep] = edges],
                         result  |-> IF edges = {} THEN Append(acc.result, dep)
                                     ELSE acc.result])

\* finish that reports every successor, whether or not its set became empty
FinishReturnsEverySuccessor(q, node) ==
    IF node \notin DOMAIN q.reverse_dep_map
    THEN [panic |-> "", dep_map |-> q.dep_map, result |-> <<>>]
    ELSE [FinishLoop(Iter(q.reverse_dep_map[node]), 1, node,
                     [panic |-> "", dep_map |-> q.dep_map, result |-> <<>>])
          EXCEPT !.result = Iter(q.reverse_dep_map[node])]

\* finish that skips a successor which is gone or no longer waits for node
FinishSkipsMissingEdge(q, node) ==
    LET succ  == IF node \in DOMAIN q.reverse_dep_map
                 THEN q.reverse_dep_map[node] \cap DOMAIN q.dep_map ELSE {}
        after == [s \in DOMAIN q.dep_map |->
                     IF s \in succ THEN q.dep_map[s] \ {node} ELSE q.dep_map[s]]
    IN  [panic |-> "", dep_map |-> after,
         result |-> Iter({s \in succ : node \in q.dep_map[s] /\ after[s] = {}})]

\* finish that looks the successors up but leaves their edges in place
FinishKeepsEdges(q, node) == [panic |-> "", dep_map |-> q.dep_map, result |-> <<>>]

\* DependencyQueue::finish: [panic, dep_map, result]
Finish(q, node) ==
    IF node \notin DOMAIN q.reverse_dep_map
    THEN [panic |-> "", dep_map |-> q.dep_map, result |-> <<>>]
    ELSE FinishLoop(Iter(q.reverse_dep_map[node]), 1, node,
                    [panic |-> "", dep_map |-> q.dep_map, result |-> <<>>])

\* HintProvider::label
Label(h) ==
    CASE h.kind = "cargo" ->
            IF h.separate_codegen THEN "Cargo Hints (separate codegen units)"
            ELSE "Cargo Hints"
      [] h.kind = "nhints" -> "N-Hints"
      [] OTHER -> ""

---------------------------------------------------------------------------
(* runner.rs *)

\* `(duration * 1000.) as u64`: seconds to whole milliseconds, truncating
Millis(duration) == duration \div TicksPerMilli

Task(artifact, end_time) == [artifact |-> artifact, end_time |-> end_time]

Occupied(tasks) == {i \in 1..Len(tasks) : tasks[i] # {}}

TaskOf(slot) == CHOOSE t \in slot : TRUE

\* min_by_key over the occupied slots: Option<end_time of task_to_remove>
MinEndTime(tasks) ==
    {e \in {TaskOf(tasks[i]).end_time : i \in Occupied(tasks)} :
        \A j \in Occupied(tasks) : e <= TaskOf(tasks[j]).end_time}

busy_slots(count) == count

\* free_slots counting one slot too many
free_slots_off_by_one(tasks, count) == Len(tasks) - busy_slots(count) + 1

\* free_slots keeping one slot back
free_slots_one_less(tasks, count) == Len(tasks) - busy_slots(count) - 1

free_slots(tasks, count) == Len(tasks) - busy_slots(count)

RECURSIVE RetainLoop(_, _, _)
\* a loop that takes out task_to_remove alone, the first slot of that end_time
RetainLoopFirstOnly(i, end_time, acc) ==
    LET hits == {j \in i..Len(acc.tasks) :
                    acc.tasks[j] # {} /\ TaskOf(acc.tasks[j]).end_time = end_time}
    IN  IF hits = {}
        THEN acc
        ELSE LET j == CHOOSE k \in hits : \A l \in hits : k <= l
                 finished == TaskOf(acc.tasks[j])
                 f == Finish([dep_map |-> acc.dep_map,
                              reverse_dep_map |-> queue.reverse_dep_map],
                             finished.artifact)
             IN  [tasks   |-> [acc.tasks EXCEPT ![j] = {}],
                  count   |-> acc.count - 1,
                  dep_map |-> f.dep_map,
                  panic   |-> f.panic,
                  log     |-> Append(acc.log, [ev |-> "Finished",
                                               artifact |-> finished.artifact,
                                               time |-> finished.end_time])]

\* the retain_mut closure of run_next_task_to_completion, slot by slot
\* acc = [tasks, count, dep_map, panic, log]
RetainLoop(i, end_time, acc) ==
    IF i > Len(acc.tasks) \/ acc.panic # ""
    THEN acc
    ELSE IF acc.tasks[i] # {} /\ TaskOf(acc.tasks[i]).end_time = end_time
    THEN LET finished == TaskOf(acc.tasks[i])
             f == Finish([dep_map |-> acc.dep_map,
                          reverse_dep_map |-> queue.reverse_dep_map], finished.artifact)
         IN  RetainLoop(i + 1, end_time,
                 [tasks   |-> [acc.tasks EXCEPT ![i] = {}],
                  count   |-> acc.count - 1,
                  dep_map |-> f.dep_map,
                  panic   |-> f.panic,
                  log     |-> Append(acc.log, [ev |-> "Finished",
                                               artifact |-> finished.artifact,
                                               time |-> finished.end_time])])
    ELSE RetainLoop(i + 1, end_time, acc)

\* the first empty slot: Option<index>
FirstEmptySlot(tasks) ==
    {i \in 1..Len(tasks) : tasks[i] = {} /\ \A j \in 1..(i - 1) : tasks[j] # {}}

\* end_time without the current_time offset
EndTimeFromZero(now, duration) == Millis(duration)

\* end_time of a task scheduled now
EndTime(now, duration) == now + Millis(duration)

MakespanOf(q, tasks, now) ==
    [label |-> Label(q.hints), num_threads |-> Len(tasks), makespan |-> now]

\* Runner::new
RunnerNew(q, t, n) ==
    /\ queue' = q
    /\ timings' = t
    /\ num_threads' = n
    /\ running_tasks' = [i \in 1..n |-> {}]
    /\ current_time' = 0
    /\ running_tasks_count' = 0
    /\ log' = <<>>
    /\ makespan' = {}

---------------------------------------------------------------------------
(* Actions *)

\* DependencyQueueBuilder::queue(key, dependencies)
Queue(key, dependencies) ==
    /\ pc = "build"
    /\ builder' = BuilderQueue(builder, key, dependencies)
    /\ UNCHANGED <<pc, queue, last_call, panic>>
    /\ UNCHANGED runnerVars
    /\ UNCHANGED lowerVars
    /\ UNCHANGED hintVars
    /\ UNCHANGED parseVars

\* main.rs: CargoHints::new(&builder), builder.clone().finish(hints), Runner::new
CreateRunner(separate_codegen, t, n) ==
    /\ pc = "build"
    /\ LET h == CargoHintsNew(builder, separate_codegen)
       IN  IF h.panic
           THEN /\ pc' = "panic"
                /\ panic' = "cycle in DependencyQueue"
                /\ UNCHANGED <<queue, timings, num_threads, running_tasks,
                               current_time, running_tasks_count, log, makespan>>
           ELSE /\ pc' = "calculate"
                /\ panic' = ""
                /\ RunnerNew(BuilderFinish(builder, h.hints), t, n)
    /\ UNCHANGED <<builder, last_call, run, first_run>>
    /\ UNCHANGED lowerVars
    /\ UNCHANGED hintVars
    /\ UNCHANGED parseVars

\* a loop condition that only looks at the queue
LoopConditionQueueOnly == ~IsEmpty(queue)

\* the loop condition of Runner::calculate
LoopCondition == ~IsEmpty(queue) \/ busy_slots(running_tasks_count) > 0

\* Runner::run_next_task_to_completion, the first half of Runner::step
RunNextTaskToCompletion ==
    /\ pc = "calculate"
    /\ LoopCondition
    /\ IF MinEndTime(running_tasks) = {}
       THEN /\ pc' = "schedule"
            /\ UNCHANGED <<queue, running_tasks, running_tasks_count, current_time,
                           log, panic>>
       ELSE LET end_time == CHOOSE e \in MinEndTime(running_tasks) : TRUE
                done == RetainLoop(1, end_time,
                            [tasks |-> running_tasks, count |-> running_tasks_count,
                             dep_map |-> queue.dep_map, panic |-> "", log |-> log])
            IN  /\ running_tasks' = done.tasks
                /\ running_tasks_count' = done.count
                /\ queue' = [queue EXCEPT !.dep_map = done.dep_map]
                /\ log' = done.log
                /\ panic' = done.panic
                /\ IF done.panic # ""
                   THEN pc' = "panic" /\ UNCHANGED current_time
                   ELSE pc' = "schedule" /\ current_time' = end_time
    /\ UNCHANGED <<builder, last_call, timings, num_threads, run, first_run, makespan>>
    /\ UNCHANGED lowerVars
    /\ UNCHANGED hintVars
    /\ UNCHANGED parseVars

\* one iteration of the while loop of Runner::schedule_new_tasks that dequeues a task
ScheduleNewTask ==
    /\ pc = "schedule"
    /\ free_slots(running_tasks, running_tasks_count) > 0
    /\ \E d \in Dequeue(queue) :
          /\ d.key # {}
          /\ LET new_task == CHOOSE k \in d.key : TRUE
                 slot == FirstEmptySlot(running_tasks)
             IN  /\ queue' = d.queue
                 /\ IF slot = {}
                    THEN /\ pc' = "panic"
                         /\ panic' = "There should be at least one empty slot"
                         /\ UNCHANGED <<running_tasks, running_tasks_count, log>>
                    ELSE /\ running_tasks' =
                               [running_tasks EXCEPT ![CHOOSE i \in slot : TRUE] =
                                   {Task(new_task, EndTime(current_time, timings[new_task]))}]
                         /\ running_tasks_count' = running_tasks_count + 1
                         /\ log' = Append(log, [ev |-> "Scheduling", artifact |-> new_task,
                                                time |-> current_time])
                         /\ UNCHANGED <<pc, panic>>
    /\ UNCHANGED <<builder, last_call, timings, num_threads, current_time, run,
                   first_run, makespan>>
    /\ UNCHANGED lowerVars
    /\ UNCHANGED hintVars
    /\ UNCHANGED parseVars

\* the exit of the while loop of Runner::schedule_new_tasks: no free slot, or
\* dequeue returned None
ScheduleBreak ==
    /\ pc = "schedule"
    /\ \/ /\ free_slots(running_tasks, running_tasks_count) <= 0
          /\ UNCHANGED queue
       \/ /\ free_slots(running_tasks, running_tasks_count) > 0
          /\ \E d \in Dequeue(queue) : d.key = {} /\ queue' = d.queue
    /\ pc' = "calculate"
    /\ UNCHANGED <<builder, last_call, panic>>
    /\ UNCHANGED runnerVars
    /\ UNCHANGED lowerVars
    /\ UNCHANGED hintVars
    /\ UNCHANGED parseVars

\* Runner::calculate leaves its loop: assert_eq!(busy_slots, 0), return Makespan
CalculateReturn ==
    /\ pc = "calculate"
    /\ ~LoopCondition
    /\ IF busy_slots(running_tasks_count) # 0
       THEN /\ pc' = "panic"
            /\ panic' = "assertion failed: busy_slots == 0"
            /\ UNCHANGED <<makespan, first_run>>
       ELSE /\ pc' = "done"
            /\ makespan' = {MakespanOf(queue, running_tasks, current_time)}
            /\ first_run' = IF run = 1
                            THEN {[log |-> log,
                                   makespan |-> MakespanOf(queue, running_tasks,
                                                           current_time)]}
                            ELSE first_run
            /\ UNCHANGED panic
    /\ UNCHANGED <<builder, queue, last_call, timings, num_threads, current_time,
                   running_tasks, running_tasks_count, log, run>>
    /\ UNCHANGED lowerVars
    /\ UNCHANGED hintVars
    /\ UNCHANGED parseVars

\* a second Runner over a clone of the builder, the same timings, num_threads
\* and an identically constructed provider (main.rs builds one Runner per scenario)
Rerun ==
    /\ pc = "done"
    /\ run = 1
    /\ queue.hints.kind = "cargo"
    /\ LET h == CargoHintsNew(builder, queue.hints.separate_codegen)
       IN  RunnerNew(BuilderFinish(builder, h.hints), timings, num_threads)
    /\ pc' = "calculate"
    /\ run' = 2
    /\ UNCHANGED <<builder, last_call, panic, first_run>>
    /\ UNCHANGED lowerVars
    /\ UNCHANGED hintVars
    /\ UNCHANGED parseVars

---------------------------------------------------------------------------
(* The simulator: a builder is filled, a Runner is created and calculate runs *)

NoLowering ==
    /\ graph = <<>>
    /\ ret = EmptyMap
    /\ unit_idx = 0

NoInsertion ==
    /\ n_hints = <<>>
    /\ top_n_entries = <<>>

NoParse ==
    /\ parse_out = EmptyMap
    /\ timing = {}
    /\ line_typ = {}
    /\ line_no = 0

Init ==
    /\ pc = "build"
    /\ builder = BuilderNew
    /\ queue = NoQueue
    /\ timings = EmptyMap
    /\ num_threads = 0
    /\ current_time = 0
    /\ running_tasks = <<>>
    /\ running_tasks_count = 0
    /\ panic = ""
    /\ log = <<>>
    /\ last_call = [op |-> "none"]
    /\ run = 1
    /\ first_run = {}
    /\ makespan = {}
    /\ NoLowering
    /\ NoInsertion
    /\ NoParse

Durations == 0..MaxDuration

\* the steps of Runner::calculate
Calculate ==
    \/ RunNextTaskToCompletion
    \/ ScheduleNewTask
    \/ ScheduleBreak
    \/ CalculateReturn

\* filling the builder and creating the Runner
Setup ==
    \/ \E key \in Artifacts, dependencies \in SUBSET Artifacts : Queue(key, dependencies)
    \/ \E separate_codegen \in BOOLEAN, t \in [DOMAIN builder.dep_map -> Durations],
          n \in 0..MaxThreads :
              CreateRunner(separate_codegen, t, n)

Next ==
    \/ Setup
    \/ Calculate
    \/ Rerun

Spec == Init /\ [][Next]_vars

\* calculate is a sequential loop: the step it is at is always taken
\* the durations that are whole milliseconds
WholeMillis == {d \in Durations : d % TicksPerMilli = 0}

\* Setup with timings of whole milliseconds
LiveSetup ==
    \/ \E key \in Artifacts, dependencies \in SUBSET Artifacts : Queue(key, dependencies)
    \/ \E separate_codegen \in BOOLEAN, t \in [DOMAIN builder.dep_map -> WholeMillis],
          n \in 0..MaxThreads :
              CreateRunner(separate_codegen, t, n)

LiveNext ==
    \/ LiveSetup
    \/ Calculate

LiveSpec == Init /\ [][LiveNext]_vars /\ WF_vars(Calculate)

---------------------------------------------------------------------------
(* The queue on its own: a builder is filled and finished with a provider,  *)
(* then dequeue and finish are called in any order with any argument        *)

\* DependencyQueueBuilder::finish(hints) with a freshly built CargoHints
FinishBuilderCargo(separate_codegen) ==
    /\ pc = "build"
    /\ LET h == CargoHintsNew(builder, separate_codegen)
       IN  IF h.panic
           THEN /\ pc' = "panic"
                /\ panic' = "cycle in DependencyQueue"
                /\ UNCHANGED queue
           ELSE /\ pc' = "live"
                /\ queue' = BuilderFinish(builder, h.hints)
                /\ UNCHANGED panic
    /\ UNCHANGED <<builder, last_call>>
    /\ UNCHANGED runnerVars
    /\ UNCHANGED lowerVars
    /\ UNCHANGED hintVars
    /\ UNCHANGED parseVars

\* DependencyQueueBuilder::finish(hints) with RepeatSchedule::new(artifacts)
FinishBuilderRepeat(artifacts) ==
    /\ pc = "build"
    /\ pc' = "live"
    /\ queue' = BuilderFinish(builder, RepeatScheduleNew(artifacts))
    /\ UNCHANGED <<builder, last_call, panic>>
    /\ UNCHANGED runnerVars
    /\ UNCHANGED lowerVars
    /\ UNCHANGED hintVars
    /\ UNCHANGED parseVars

\* a call of DependencyQueue::dequeue
DequeueCall ==
    /\ pc = "live"
    /\ \E d \in Dequeue(queue) :
          /\ queue' = d.queue
          /\ last_call' = [op |-> "dequeue", node |-> {}, before |-> queue,
                           returned |-> d.key]
    /\ UNCHANGED <<pc, builder, panic>>
    /\ UNCHANGED runnerVars
    /\ UNCHANGED lowerVars
    /\ UNCHANGED hintVars
    /\ UNCHANGED parseVars

\* a call of DependencyQueue::finish(node)
FinishCall(node) ==
    /\ pc = "live"
    /\ LET f == Finish(queue, node)
       IN  /\ queue' = [queue EXCEPT !.dep_map = f.dep_map]
           /\ panic' = f.panic
           /\ pc' = IF f.panic # "" THEN "panic" ELSE pc
           /\ last_call' = [op |-> "finish", node |-> {node}, before |-> queue,
                            returned |-> f.result]
    /\ UNCHANGED builder
    /\ UNCHANGED runnerVars
    /\ UNCHANGED lowerVars
    /\ UNCHANGED hintVars
    /\ UNCHANGED parseVars

\* the vectors handed to RepeatSchedule::new
Orders == UNION {[1..n -> Artifacts] : n \in 0..MaxOrderLen}

QueueNext ==
    \/ \E key \in Artifacts, dependencies \in SUBSET Artifacts : Queue(key, dependencies)
    \/ \E separate_codegen \in BOOLEAN : FinishBuilderCargo(separate_codegen)
    \/ \E artifacts \in Orders : FinishBuilderRepeat(artifacts)
    \/ DequeueCall
    \/ \E node \in Artifacts : FinishCall(node)

QueueSpec == Init /\ [][QueueNext]_vars

---------------------------------------------------------------------------
(* Graph notions used by the properties *)

RECURSIVE Closure(_, _)
\* the artifacts reachable from S along predecessor edges
Closure(dep_map, S) ==
    LET more == S \cup UNION {dep_map[x] : x \in S \cap DOMAIN dep_map}
    IN  IF more = S THEN S ELSE Closure(dep_map, more)

Acyclic(dep_map) == \A a \in DOMAIN dep_map : a \notin Closure(dep_map, dep_map[a])

\* every predecessor named by a queue call was itself queued
PredecessorsQueued(dep_map) == \A a \in DOMAIN dep_map : dep_map[a] \subseteq DOMAIN dep_map

---------------------------------------------------------------------------
(* Replay: a CargoHints run, then a run over the same graph, timings and   *)
(* num_threads with RepeatSchedule::new(order of the first run)             *)

IsSchedulingEvent(e) == e.ev = "Scheduling"

\* the artifacts in the order in which the run that wrote l dequeued them
DequeueOrder(l) ==
    LET started == SelectSeq(l, IsSchedulingEvent)
    IN  [i \in 1..Len(started) |-> started[i].artifact]

\* a Runner over a clone of the builder with RepeatSchedule::new(O) as provider
Replay ==
    /\ pc = "done"
    /\ run = 1
    /\ queue.hints.kind = "cargo"
    /\ RunnerNew(BuilderFinish(builder, RepeatScheduleNew(DequeueOrder(log))),
                 timings, num_threads)
    /\ pc' = "calculate"
    /\ run' = 3
    /\ UNCHANGED <<builder, last_call, panic, first_run>>
    /\ UNCHANGED lowerVars
    /\ UNCHANGED hintVars
    /\ UNCHANGED parseVars

\* the durations of the replayed runs: 0 ms and 1 ms
ReplayDurations == {d \in WholeMillis : Millis(d) <= 1}

\* filling the builder and creating the Runner of the first run: a graph with
\* every predecessor queued and at least one slot, as a run that completes needs
ReplaySetup ==
    \/ \E key \in Artifacts, dependencies \in SUBSET Artifacts : Queue(key, dependencies)
    \/ /\ PredecessorsQueued(builder.dep_map)
       /\ \E separate_codegen \in BOOLEAN, t \in [DOMAIN builder.dep_map -> ReplayDurations],
             n \in 1..MaxThreads :
                 CreateRunner(separate_codegen, t, n)

ReplayNext ==
    \/ ReplaySetup
    \/ Calculate
    \/ Replay

\* calculate is a sequential loop: the step it is at is always taken
ReplaySpec == Init /\ [][ReplayNext]_vars /\ WF_vars(Calculate)

---------------------------------------------------------------------------
(* timings.rs: node_type *)

BuildMode == {"RunCustomBuild", "Build"}

CrateType == {"Lib", "ProcMacro", "Rlib", "Cdylib", "Bin"}

Target(name, crate_types) == [name |-> name, crate_types |-> crate_types]

is_build_script(target) ==
    target.name = "build-script-build" \/ target.name = "build-script-main"

\* kind resolution that looks at crate_types before the build-script test
node_type_crate_types_first(mode, target) ==
    CASE /\ mode = "Build"
         /\ \E i \in 1..Len(target.crate_types) :
               target.crate_types[i] \in {"Bin", "ProcMacro", "Rlib", "Cdylib"}
           -> {"Link"}
      [] mode = "Build" /\ is_build_script(target) -> {"BuildScriptBuild"}
      [] mode = "RunCustomBuild" /\ is_build_script(target) -> {"BuildScriptRun"}
      [] OTHER -> IF mode = "Build" THEN {"Metadata"} ELSE {}

\* Option<ArtifactType>: {} is the unreachable!() arm
node_type(mode, target) ==
    CASE mode = "Build" /\ is_build_script(target) -> {"BuildScriptBuild"}
      [] mode = "RunCustomBuild" /\ is_build_script(target) -> {"BuildScriptRun"}
      [] /\ mode = "Build" /\ ~is_build_script(target)
         /\ \E i \in 1..Len(target.crate_types) :
               target.crate_types[i] \in {"Bin", "ProcMacro", "Rlib", "Cdylib"}
           -> {"Link"}
      [] OTHER -> IF mode = "Build" THEN {"Metadata"} ELSE {}

---------------------------------------------------------------------------
(* unit_graph.rs: unit_graph_to_artifacts *)

\* dependencies holds the 0-based indices of the Dependency entries
Unit(pkg_id, target, mode, dependencies) ==
    [pkg_id |-> pkg_id, target |-> target, mode |-> mode, dependencies |-> dependencies]

\* graph.units[index], index 0-based
UnitAt(g, index) == g[index + 1]

\* Option<Artifact>
unit_to_artifact(unit) ==
    {Artifact(typ, unit.pkg_id) : typ \in node_type(unit.mode, unit.target)}

\* a rewrite that leaves the dependency as it is
RewriteNothing(dep) == dep

\* the Link / BuildScriptBuild rewrite of one dependency
RewriteMetadata(dep) ==
    IF dep.typ = "Metadata" THEN Artifact("Codegen", dep.package_id) ELSE dep

\* an iteration that hands the Codegen sibling the dependencies of the unit
LowerOneCodegenInherits(g, unit, r) ==
    LET artifact     == CHOOSE a \in unit_to_artifact(unit) : TRUE
        dependencies == UNION {unit_to_artifact(UnitAt(g, d)) : d \in unit.dependencies}
    IN  IF artifact.typ = "Metadata"
        THEN [panic |-> "",
              ret |-> Put(Put(r, Artifact("Codegen", artifact.package_id),
                              dependencies \cup {artifact}),
                          artifact, dependencies)]
        ELSE [panic |-> "",
              ret |-> Put(r, artifact, {RewriteMetadata(d) : d \in dependencies})]

\* one iteration of `for unit in graph.units.iter()`: [panic, ret]
LowerOne(g, unit, r) ==
    LET artifacts    == unit_to_artifact(unit)
        dep_options  == {unit_to_artifact(UnitAt(g, d)) : d \in unit.dependencies}
    IN  IF artifacts = {} \/ {} \in dep_options
        THEN [panic |-> "internal error: entered unreachable code", ret |-> r]
        ELSE LET artifact     == CHOOSE a \in artifacts : TRUE
                 dependencies == UNION dep_options
             IN  IF artifact \in dependencies
                 THEN [panic |-> "assertion failed: !dependencies.contains(artifact)",
                       ret |-> r]
                 ELSE IF artifact.typ = "Metadata"
                 THEN [panic |-> "",
                       ret |-> Put(Put(r, Artifact("Codegen", artifact.package_id),
                                       {artifact}),
                                   artifact, dependencies)]
                 ELSE IF artifact.typ = "Link" \/ artifact.typ = "BuildScriptBuild"
                 THEN [panic |-> "",
                       ret |-> Put(r, artifact,
                                   {RewriteMetadata(d) : d \in dependencies})]
                 ELSE [panic |-> "", ret |-> Put(r, artifact, dependencies)]

RECURSIVE depend_on_deps_of_deps(_, _, _)
RECURSIVE DependLoop(_, _, _, _)

\* the `for dep in deps.get(child).cloned().unwrap()` loop: acc = [panic, deps]
DependLoop(snapshot, i, parent, acc) ==
    IF i > Len(snapshot) \/ acc.panic # ""
    THEN acc
    ELSE LET dep == snapshot[i]
         IN  IF dep.typ = "Metadata"
             THEN IF parent \notin DOMAIN acc.deps
                  THEN [acc EXCEPT !.panic = "unwrap on None: deps.get_mut(parent)"]
                  ELSE LET codegen        == Artifact("Codegen", dep.package_id)
                           should_recurse == codegen \notin acc.deps[parent]
                           inserted       == [acc EXCEPT !.deps[parent] = @ \cup {codegen}]
                       IN  DependLoop(snapshot, i + 1, parent,
                               IF should_recurse
                               THEN depend_on_deps_of_deps(inserted.deps, parent, dep)
                               ELSE inserted)
             ELSE DependLoop(snapshot, i + 1, parent, acc)

\* [panic, deps]
depend_on_deps_of_deps(deps, parent, child) ==
    IF child \notin DOMAIN deps
    THEN [panic |-> "unwrap on None: deps.get(child)", deps |-> deps]
    ELSE DependLoop(Iter(deps[child]), 1, parent, [panic |-> "", deps |-> deps])

RECURSIVE LinkDepsLoop(_, _, _, _)
\* `for dep in deps` of one (parent, deps) pair of nodes: acc = [panic, deps]
LinkDepsLoop(parent, snapshot, i, acc) ==
    IF i > Len(snapshot) \/ acc.panic # ""
    THEN acc
    ELSE IF snapshot[i] = parent
    THEN [acc EXCEPT !.panic = "assertion failed: dep != parent"]
    ELSE LinkDepsLoop(parent, snapshot, i + 1,
                      depend_on_deps_of_deps(acc.deps, parent, snapshot[i]))

RECURSIVE LinkNodesLoop(_, _, _, _)
\* `for (parent, deps) in nodes`; nodes holds the Link keys, original the map
\* the dependency sets of nodes were cloned from
LinkNodesLoop(nodes, original, i, acc) ==
    IF i > Len(nodes) \/ acc.panic # ""
    THEN acc
    ELSE LinkNodesLoop(nodes, original, i + 1,
                       LinkDepsLoop(nodes[i], Iter(original[nodes[i]]), 1, acc))

\* the second half of unit_graph_to_artifacts: [panic, deps]
LinkPassOf(r) ==
    LinkNodesLoop(Iter({k \in DOMAIN r : k.typ = "Link"}), r, 1,
                  [panic |-> "", deps |-> r])

\* the lowering loop handles graph.units[unit_idx]
LowerUnit ==
    /\ pc = "lower"
    /\ unit_idx < Len(graph)
    /\ LET l == LowerOne(graph, UnitAt(graph, unit_idx), ret)
       IN  /\ ret' = l.ret
           /\ panic' = l.panic
           /\ pc' = IF l.panic # "" THEN "panic" ELSE pc
    /\ unit_idx' = unit_idx + 1
    /\ UNCHANGED graph
    /\ UNCHANGED queueVars
    /\ UNCHANGED runnerVars
    /\ UNCHANGED parseVars
    /\ UNCHANGED hintVars

\* after the loop: the transitive codegen edges of the Link nodes, and the return
LinkPass ==
    /\ pc = "lower"
    /\ unit_idx = Len(graph)
    /\ LET l == LinkPassOf(ret)
       IN  /\ ret' = l.deps
           /\ panic' = l.panic
           /\ pc' = IF l.panic # "" THEN "panic" ELSE "lowered"
    /\ UNCHANGED <<graph, unit_idx>>
    /\ UNCHANGED queueVars
    /\ UNCHANGED runnerVars
    /\ UNCHANGED parseVars
    /\ UNCHANGED hintVars

LibTarget    == Target("t", <<"Lib">>)
BinTarget    == Target("t", <<"Bin">>)
ScriptTarget == Target("build-script-build", <<"Bin">>)

\* (mode, target) of the units of the model
UnitShapes == {<<"Build", LibTarget>>, <<"Build", BinTarget>>,
               <<"Build", ScriptTarget>>, <<"RunCustomBuild", ScriptTarget>>}

\* graph is a unit graph of n units, each depending on units of smaller index
IsUnitGraph(n) ==
    \E dependencies \in [1..n -> SUBSET (0..(n - 2))] :
        /\ \A i \in 1..n : dependencies[i] \subseteq 0..(i - 2)
        /\ \E pkg_id \in [1..n -> PackageIds], shape \in [1..n -> UnitShapes] :
              graph = [i \in 1..n |->
                          Unit(pkg_id[i], shape[i][2], shape[i][1], dependencies[i])]

LowerInit ==
    /\ pc = "lower"
    /\ \E n \in 0..MaxUnits : IsUnitGraph(n)
    /\ ret = EmptyMap
    /\ unit_idx = 0
    /\ builder = BuilderNew
    /\ queue = NoQueue
    /\ timings = EmptyMap
    /\ num_threads = 0
    /\ current_time = 0
    /\ running_tasks = <<>>
    /\ running_tasks_count = 0
    /\ panic = ""
    /\ log = <<>>
    /\ last_call = [op |-> "none"]
    /\ run = 1
    /\ first_run = {}
    /\ makespan = {}
    /\ NoParse
    /\ NoInsertion

LowerNext ==
    \/ LowerUnit
    \/ LinkPass

LowerSpec == LowerInit /\ [][LowerNext]_vars

---------------------------------------------------------------------------
(* The whole pipeline on the fixture graphs: lowering, the builder filled   *)
(* from the lowered units, a CargoHints Runner, calculate                   *)

ScriptBuildTarget == Target("build-script-build", <<"Lib">>)

\* tests::single_crate_build: a library and a binary of one package
SingleCrate ==
    <<Unit("a", LibTarget, "Build", {}),
      Unit("a", BinTarget, "Build", {0})>>

\* tests::single_crate_with_build_script
SingleCrateWithBuildScript ==
    <<Unit("a", ScriptBuildTarget, "Build", {}),
      Unit("a", ScriptTarget, "RunCustomBuild", {0}),
      Unit("a", LibTarget, "Build", {1}),
      Unit("a", BinTarget, "Build", {2})>>

\* two library packages, the unit of b depending on the unit of a
TwoLibraries ==
    <<Unit("a", LibTarget, "Build", {}),
      Unit("b", LibTarget, "Build", {0})>>

Fixtures == {SingleCrate, SingleCrateWithBuildScript, TwoLibraries}

RECURSIVE QueueUnits(_, _, _, _)
\* `for unit in artifact_units { ret.queue(unit.artifact, unit.dependencies) }`
QueueUnits(keys, i, units, b) ==
    IF i > Len(keys)
    THEN b
    ELSE QueueUnits(keys, i + 1, units, BuilderQueue(b, keys[i], units[keys[i]]))

\* create_dependency_queue up to the filled builder
CreateDependencyQueue ==
    /\ pc = "lowered"
    /\ builder' = QueueUnits(Iter(DOMAIN ret), 1, ret, BuilderNew)
    /\ pc' = "build"
    /\ UNCHANGED <<queue, last_call, panic>>
    /\ UNCHANGED runnerVars
    /\ UNCHANGED lowerVars
    /\ UNCHANGED hintVars
    /\ UNCHANGED parseVars

\* the durations an artifact of a kind takes in the fixtures, in milliseconds
FixtureMillis(typ) ==
    CASE typ = "Metadata"         -> {100, 200, 400}
      [] typ = "Codegen"          -> {100, 600, 800}
      [] typ = "Link"             -> {100, 500}
      [] typ = "BuildScriptBuild" -> {100, 300}
      [] typ = "BuildScriptRun"   -> {100, 300}

RECURSIVE FixtureTimings(_)
\* the timing maps of the fixtures, in ticks
FixtureTimings(keys) ==
    IF keys = {}
    THEN {EmptyMap}
    ELSE LET a == CHOOSE k \in keys : TRUE
         IN  {Put(t, a, ms * TicksPerMilli) :
                 t \in FixtureTimings(keys \ {a}), ms \in FixtureMillis(a.typ)}

FixtureInit ==
    /\ pc = "lower"
    /\ graph \in Fixtures
    /\ ret = EmptyMap
    /\ unit_idx = 0
    /\ builder = BuilderNew
    /\ queue = NoQueue
    /\ timings = EmptyMap
    /\ num_threads = 0
    /\ current_time = 0
    /\ running_tasks = <<>>
    /\ running_tasks_count = 0
    /\ panic = ""
    /\ log = <<>>
    /\ last_call = [op |-> "none"]
    /\ run = 1
    /\ first_run = {}
    /\ makespan = {}
    /\ NoParse
    /\ NoInsertion

FixtureNext ==
    \/ LowerUnit
    \/ LinkPass
    \/ CreateDependencyQueue
    \/ \E separate_codegen \in BOOLEAN,
          t \in FixtureTimings(DOMAIN builder.dep_map),
          n \in 1..MaxThreads :
              CreateRunner(separate_codegen, t, n)
    \/ Calculate

FixtureSpec == FixtureInit /\ [][FixtureNext]_vars

---------------------------------------------------------------------------
(* NHintsProvider on its own: an acyclic builder is filled, the provider is *)
(* built insertion by insertion, then suggest_next is called with the ready *)
(* sets the queue can hand it                                               *)

HintArtifacts == Artifacts \cup {Artifact("Link", "a")}

HintDurations == 0..MaxHintDuration

\* NHintsProvider::new up to the insertion loop
NHintsBegin(t) ==
    /\ pc = "build"
    /\ timings' = t
    /\ IF reverse_dependencies(builder).panic
       THEN /\ pc' = "panic"
            /\ panic' = "cycle in DependencyQueue"
            /\ UNCHANGED hintVars
       ELSE /\ pc' = "hints"
            /\ top_n_entries' = TopNEntries(builder, FoldedTimings(t))
            /\ n_hints' = <<>>
            /\ UNCHANGED panic
    /\ UNCHANGED <<num_threads, current_time, running_tasks, running_tasks_count, log,
                   run, first_run, makespan>>
    /\ UNCHANGED queueVars
    /\ UNCHANGED lowerVars
    /\ UNCHANGED parseVars

\* one iteration of `for item in top_n_entries.into_iter()`
NHintsInsert ==
    /\ pc = "hints"
    /\ top_n_entries # <<>>
    /\ LET item == Head(top_n_entries)
           at   == InsertionIndex(n_hints, item, FoldedTimings(timings),
                                  reverse_dependencies(builder).results)
       IN  IF at.panic # ""
           THEN /\ pc' = "panic"
                /\ panic' = at.panic
                /\ UNCHANGED hintVars
           ELSE /\ n_hints' = InsertAt(n_hints, at.index, item)
                /\ top_n_entries' = Tail(top_n_entries)
                /\ UNCHANGED <<pc, panic>>
    /\ UNCHANGED queueVars
    /\ UNCHANGED runnerVars
    /\ UNCHANGED lowerVars
    /\ UNCHANGED parseVars

\* the end of NHintsProvider::new and DependencyQueueBuilder::finish(hints)
NHintsReturn ==
    /\ pc = "hints"
    /\ top_n_entries = <<>>
    /\ pc' = "live"
    /\ queue' = BuilderFinish(builder,
                    NHints(n_hints, FoldedTimings(timings),
                           reverse_dependencies(builder).results))
    /\ UNCHANGED <<builder, last_call, panic>>
    /\ UNCHANGED runnerVars
    /\ UNCHANGED lowerVars
    /\ UNCHANGED parseVars
    /\ UNCHANGED hintVars

\* the sets of artifacts that can be ready together: no one waits for another
ReadySets(dep_map) ==
    {S \in SUBSET DOMAIN dep_map :
        \A x \in S, y \in S : x \notin Closure(dep_map, dep_map[y])}

\* a call of suggest_next on the provider of the queue
SuggestNextCall(candidates) ==
    /\ pc = "live"
    /\ \E s \in SuggestNext(queue.hints, candidates) :
          last_call' = [op |-> "suggest_next", candidates |-> candidates,
                        returned |-> s.item]
    /\ UNCHANGED <<pc, builder, queue, panic>>
    /\ UNCHANGED runnerVars
    /\ UNCHANGED lowerVars
    /\ UNCHANGED parseVars
    /\ UNCHANGED hintVars

HintNext ==
    \/ \E key \in HintArtifacts \ DOMAIN builder.dep_map,
          dependencies \in SUBSET DOMAIN builder.dep_map :
              Queue(key, dependencies)
    \/ \E t \in [DOMAIN builder.dep_map -> HintDurations] : NHintsBegin(t)
    \/ NHintsInsert
    \/ NHintsReturn
    \/ \E S \in ReadySets(queue.dep_map) : SuggestNextCall(Iter(S))

HintSpec == Init /\ [][HintNext]_vars

---------------------------------------------------------------------------
(* Independent artifacts: a builder of artifacts without dependencies, run  *)
(* by a Runner with the CargoHints or the NHintsProvider of main.rs         *)

\* main.rs: NHintsProvider::new(&builder, &timings), builder.clone().finish(hints),
\* Runner::new
CreateNHintsRunner(t, n) ==
    /\ pc = "build"
    /\ LET h == NHintsProviderNew(builder, t)
       IN  IF h.panic # ""
           THEN /\ pc' = "panic"
                /\ panic' = h.panic
                /\ UNCHANGED <<queue, timings, num_threads, running_tasks,
                               current_time, running_tasks_count, log, makespan>>
           ELSE /\ pc' = "calculate"
                /\ panic' = ""
                /\ RunnerNew(BuilderFinish(builder, h.hints), t, n)
    /\ UNCHANGED <<builder, last_call, run, first_run>>
    /\ UNCHANGED lowerVars
    /\ UNCHANGED parseVars
    /\ UNCHANGED hintVars

IndependentArtifacts ==
    {Artifact(typ, package_id) : typ \in {"Metadata", "Link"}, package_id \in PackageIds}

\* the durations of the independent artifacts, in ticks
IndependentDurations == {ms * TicksPerMilli : ms \in {1, 4, 5, 10}}

IndependentNext ==
    \/ \E key \in IndependentArtifacts \ DOMAIN builder.dep_map : Queue(key, {})
    \/ \E separate_codegen \in BOOLEAN,
          t \in [DOMAIN builder.dep_map -> IndependentDurations],
          n \in 1..MaxThreads :
              CreateRunner(separate_codegen, t, n)
    \/ \E t \in [DOMAIN builder.dep_map -> IndependentDurations], n \in 1..MaxThreads :
              CreateNHintsRunner(t, n)
    \/ Calculate

IndependentSpec == Init /\ [][IndependentNext]_vars

---------------------------------------------------------------------------
(* timings.rs: TimingInfo::node_type and parse *)

TimingInfo(mode, duration, rmeta_time, package_id, target) ==
    [mode |-> mode, duration |-> duration, rmeta_time |-> rmeta_time,
     package_id |-> package_id, target |-> target]

\* every state of the other components at its initial value
Idle ==
    /\ builder = BuilderNew
    /\ queue = NoQueue
    /\ timings = EmptyMap
    /\ num_threads = 0
    /\ current_time = 0
    /\ running_tasks = <<>>
    /\ running_tasks_count = 0
    /\ panic = ""
    /\ log = <<>>
    /\ last_call = [op |-> "none"]
    /\ run = 1
    /\ first_run = {}
    /\ makespan = {}
    /\ NoLowering
    /\ NoInsertion

\* TimingInfo::node_type(&self) on the record held in timing
NodeType ==
    /\ pc = "kind"
    /\ LET t == CHOOSE x \in timing : TRUE
       IN  /\ line_typ' = node_type(t.mode, t.target)
           /\ pc' = IF node_type(t.mode, t.target) = {} THEN "panic" ELSE "kinded"
           /\ panic' = IF node_type(t.mode, t.target) = {}
                       THEN "internal error: entered unreachable code" ELSE ""
    /\ UNCHANGED <<parse_out, timing, line_no>>
    /\ UNCHANGED queueVars
    /\ UNCHANGED runnerVars
    /\ UNCHANGED lowerVars
    /\ UNCHANGED hintVars

TargetNames == {"build-script-build", "build-script-main", "t"}

\* the crate_types vectors of the model
CrateTypeVecs == UNION {[1..n -> CrateType] : n \in 0..MaxCrateTypes}

KindInit ==
    /\ pc = "kind"
    /\ \E mode \in BuildMode, name \in TargetNames, crate_types \in CrateTypeVecs :
          timing = {TimingInfo(mode, 0, {}, "a", Target(name, crate_types))}
    /\ parse_out = EmptyMap
    /\ line_typ = {}
    /\ line_no = 0
    /\ Idle

KindNext == NodeType

KindSpec == KindInit /\ [][KindNext]_vars

\* the Codegen duration without the rmeta_time subtracted
CodegenDurationRaw(duration, rmeta_time) == duration

\* `codegen_timing.duration -= codegen_timing.rmeta_time.take().unwrap()`
CodegenDuration(duration, rmeta_time) == duration - rmeta_time

\* the body of the `for line in contents.lines()` loop for a line that
\* deserializes to the record t: [panic, out, typ]
ParseRecord(t, o) ==
    LET kinds == node_type(t.mode, t.target)
    IN  IF kinds = {}
        THEN [panic |-> "internal error: entered unreachable code", out |-> o, typ |-> {}]
        ELSE LET k == CHOOSE x \in kinds : TRUE
             IN  IF k = "Metadata"
                 THEN IF t.rmeta_time = {}
                      THEN [panic |-> "assertion failed: timing.rmeta_time.is_some()",
                            out |-> o, typ |-> kinds]
                      ELSE LET rmeta == CHOOSE r \in t.rmeta_time : TRUE
                               codegen_timing ==
                                   [t EXCEPT !.duration = CodegenDuration(t.duration, rmeta),
                                             !.rmeta_time = {}]
                               metadata_timing ==
                                   [t EXCEPT !.duration = rmeta, !.rmeta_time = {}]
                           IN  [panic |-> "",
                                out |-> Put(Put(o, Artifact("Codegen", t.package_id),
                                                codegen_timing),
                                            Artifact(k, t.package_id), metadata_timing),
                                typ |-> kinds]
                 ELSE [panic |-> "", out |-> Put(o, Artifact(k, t.package_id), t),
                       typ |-> kinds]

\* one iteration of the loop of parse over the next line of contents;
\* brace: the line starts with '{', json: what serde_json::from_str made of it
ParseLine(brace, json) ==
    /\ pc = "parse"
    /\ line_no < MaxLines
    /\ line_no' = line_no + 1
    /\ IF ~brace
       THEN /\ timing' = {}
            /\ line_typ' = {}
            /\ UNCHANGED <<pc, panic, parse_out>>
       ELSE IF json = {}
       THEN /\ timing' = {}
            /\ line_typ' = {}
            /\ pc' = "panic"
            /\ panic' = "called unwrap on an Err value: serde_json"
            /\ UNCHANGED parse_out
       ELSE LET r == ParseRecord(CHOOSE t \in json : TRUE, parse_out)
            IN  /\ timing' = json
                /\ line_typ' = r.typ
                /\ parse_out' = r.out
                /\ panic' = r.panic
                /\ pc' = IF r.panic # "" THEN "panic" ELSE pc
    /\ UNCHANGED queueVars
    /\ UNCHANGED runnerVars
    /\ UNCHANGED lowerVars
    /\ UNCHANGED hintVars

\* contents has no further line: parse returns out
ParseReturn ==
    /\ pc = "parse"
    /\ pc' = "parsed"
    /\ UNCHANGED <<panic, parse_out, timing, line_typ, line_no>>
    /\ UNCHANGED queueVars
    /\ UNCHANGED runnerVars
    /\ UNCHANGED lowerVars
    /\ UNCHANGED hintVars

RawDurations == 0..MaxRawDuration

\* (mode, target) of the records of the model
RecordShapes == UnitShapes \cup {<<"RunCustomBuild", LibTarget>>,
                                  <<"RunCustomBuild", BinTarget>>}

\* the records a line of the timings file can deserialize to
TimingInfos ==
    {TimingInfo(shape[1], duration, rmeta_time, package_id, shape[2]) :
        shape \in RecordShapes, duration \in RawDurations,
        rmeta_time \in {{}} \cup {{r} : r \in RawDurations}, package_id \in PackageIds}

ParseInit ==
    /\ pc = "parse"
    /\ NoParse
    /\ Idle

ParseNext ==
    \/ \E brace \in BOOLEAN, json \in {{}} \cup {{t} : t \in TimingInfos} :
          ParseLine(brace, json)
    \/ ParseReturn

ParseSpec == ParseInit /\ [][ParseNext]_vars

---------------------------------------------------------------------------
(* Properties of the lowering *)

\* the artifact a unit resolves to
ArtifactOf(unit) == CHOOSE a \in unit_to_artifact(unit) : TRUE

UnitIndexes == 0..(Len(graph) - 1)

RECURSIVE UnitClosure(_, _)
\* the unit indices reachable from the indices S along unit dependencies,
\* following only units of the set `through`
UnitClosure(S, through) ==
    LET more == S \cup (through \cap
                        UNION {UnitAt(graph, u).dependencies : u \in S \cap through})
    IN  IF more = S THEN S ELSE UnitClosure(more, through)

UnitAcyclic ==
    \A u \in UnitIndexes :
        u \notin UnitClosure(UnitAt(graph, u).dependencies \cap UnitIndexes, UnitIndexes)

MetadataUnits == {u \in UnitIndexes : ArtifactOf(UnitAt(graph, u)).typ = "Metadata"}

\* the library units x1, x2, ... reached from unit u through library units only
LibraryChain(u) ==
    UnitClosure(UnitAt(graph, u).dependencies \cap MetadataUnits, MetadataUnits)

\* C9: in the lowered graph every Link artifact P has (Codegen, x.package_id)
\* as a direct predecessor for every library unit x on a chain of library
\* units that starts at a dependency of P's unit.
C9_LinkSeesTransitiveCodegen ==
    pc = "lowered" =>
        \A u \in UnitIndexes :
            ArtifactOf(UnitAt(graph, u)).typ = "Link" =>
                \A x \in LibraryChain(u) :
                    Artifact("Codegen", UnitAt(graph, x).pkg_id)
                        \in ret[ArtifactOf(UnitAt(graph, u))]

\* C10: whenever the lowering of an acyclic unit graph returns, the returned
\* predecessor relation has no cycle.
C10_AcyclicLowering ==
    (pc = "lowered" /\ UnitAcyclic) => Acyclic(ret)

\* C11: in the lowered graph every Metadata artifact m has the entry
\* (Codegen, m.package_id) and the predecessor set of that entry is {m}; every
\* Codegen entry has its Metadata sibling.
C11_PipeliningPair ==
    pc = "lowered" =>
        /\ \A m \in DOMAIN ret :
              m.typ = "Metadata" =>
                  /\ Artifact("Codegen", m.package_id) \in DOMAIN ret
                  /\ ret[Artifact("Codegen", m.package_id)] = {m}
        /\ \A c \in DOMAIN ret :
              c.typ = "Codegen" => Artifact("Metadata", c.package_id) \in DOMAIN ret

\* a library with a library dependency was lowered, and a Link went through
\* the pass over the Link nodes
C11_Witness ==
    /\ pc = "lowered"
    /\ \E m \in DOMAIN ret : m.typ = "Metadata" /\ ret[m] # {}
    /\ \E l \in DOMAIN ret : l.typ = "Link" /\ ret[l] # {}

\* the unit whose predecessor set is the entry of artifact a: the last one
\* that resolves to a
UnitOfEntry(a) ==
    CHOOSE u \in UnitIndexes :
        /\ ArtifactOf(UnitAt(graph, u)) = a
        /\ \A v \in UnitIndexes : ArtifactOf(UnitAt(graph, v)) = a => v <= u

DuplicateArtifact ==
    \E u \in UnitIndexes, v \in UnitIndexes :
        u # v /\ ArtifactOf(UnitAt(graph, u)) = ArtifactOf(UnitAt(graph, v))

\* C19: lowering a unit graph in which two distinct units resolve to the same
\* artifact does not return a result.
C19_DuplicateIsFatal ==
    DuplicateArtifact => pc # "lowered"

---------------------------------------------------------------------------
(* Properties of the timings *)

LinkCrateTypes == {"Bin", "ProcMacro", "Rlib", "Cdylib"}

\* C18: kind resolution maps (Build, build-script target) to BuildScriptBuild,
\* (RunCustomBuild, build-script target) to BuildScriptRun, (Build, non-script
\* target with a crate type among Bin, ProcMacro, Rlib, Cdylib) to Link,
\* (Build, any other non-script target) to Metadata, and aborts on
\* (RunCustomBuild, non-script target); the test on the target name comes
\* before the crate types.
C18_KindResolution ==
    pc \in {"kinded", "panic"} =>
        \A t \in timing :
            LET script == t.target.name \in {"build-script-build", "build-script-main"}
                types  == Range(t.target.crate_types)
            IN  /\ (t.mode = "Build" /\ script) =>
                      (pc = "kinded" /\ line_typ = {"BuildScriptBuild"})
                /\ (t.mode = "RunCustomBuild" /\ script) =>
                      (pc = "kinded" /\ line_typ = {"BuildScriptRun"})
                /\ (t.mode = "Build" /\ ~script /\ types \cap LinkCrateTypes # {}) =>
                      (pc = "kinded" /\ line_typ = {"Link"})
                /\ (t.mode = "Build" /\ ~script /\ types \cap LinkCrateTypes = {}) =>
                      (pc = "kinded" /\ line_typ = {"Metadata"})
                /\ (t.mode = "RunCustomBuild" /\ ~script) =>
                      (pc = "panic" /\ line_typ = {})

\* a build-script target whose crate_types name a linked crate type was resolved
C18_Witness ==
    /\ pc = "kinded"
    /\ line_typ = {"BuildScriptBuild"}
    /\ \E t \in timing :
          /\ t.target.name = "build-script-main"
          /\ Range(t.target.crate_types) \cap LinkCrateTypes # {}

\* the entries of o other than those of the keys K are those of p
SameExcept(o, p, K) ==
    /\ DOMAIN o = (DOMAIN p) \cup K
    /\ \A a \in (DOMAIN p) \ K : o[a] = p[a]

\* C20: parse turns a record resolving to Metadata into a (Metadata, pkg)
\* entry of duration rmeta_time and a (Codegen, pkg) entry of duration
\* raw duration - rmeta_time, the two summing to the raw duration; a record
\* of another kind yields exactly one entry, with its duration unchanged; a
\* Metadata-resolving record without rmeta_time aborts parse.
C20_Ingestion ==
    [][(pc = "parse" /\ line_no' = line_no + 1 /\ timing' # {}) =>
          LET t == CHOOSE x \in timing' : TRUE
              m == Artifact("Metadata", t.package_id)
              c == Artifact("Codegen", t.package_id)
          IN  \A k \in node_type(t.mode, t.target) :
                  IF k = "Metadata"
                  THEN IF t.rmeta_time = {}
                       THEN pc' = "panic" /\ parse_out' = parse_out
                       ELSE /\ pc' = "parse"
                            /\ SameExcept(parse_out', parse_out, {m, c})
                            /\ {parse_out'[m].duration} = t.rmeta_time
                            /\ parse_out'[c].duration + parse_out'[m].duration = t.duration
                            /\ \A r \in t.rmeta_time :
                                  parse_out'[c].duration = t.duration - r
                  ELSE /\ pc' = "parse"
                       /\ SameExcept(parse_out', parse_out, {Artifact(k, t.package_id)})
                       /\ parse_out'[Artifact(k, t.package_id)].duration = t.duration
                       /\ parse_out'[Artifact(k, t.package_id)] = t
    ]_vars

\* parse returned a map holding the two entries of a library record with a
\* non-zero rmeta_time next to the entry of a record of another kind
C20_Witness ==
    /\ pc = "parsed"
    /\ \E p \in PackageIds, a \in DOMAIN parse_out :
          /\ Artifact("Metadata", p) \in DOMAIN parse_out
          /\ Artifact("Codegen", p) \in DOMAIN parse_out
          /\ parse_out[Artifact("Metadata", p)].duration > 0
          /\ a.typ \notin {"Metadata", "Codegen"}

---------------------------------------------------------------------------
(* Properties of the queue *)

Successors(q, a) == IF a \in DOMAIN q.reverse_dep_map THEN q.reverse_dep_map[a] ELSE {}

\* C7: a finish(a) that returns removes a from dep_map[s] for every recorded
\* successor s and from no other set, and returns exactly the successors whose
\* set was non-empty before and is empty after; without recorded successors it
\* returns an empty list and leaves dep_map unchanged.
C7_FinishAccounting ==
    (last_call.op = "finish" /\ pc # "panic") =>
        LET a      == CHOOSE n \in last_call.node : TRUE
            before == last_call.before.dep_map
            after  == queue.dep_map
        IN  /\ DOMAIN after = DOMAIN before
            /\ \A s \in Successors(queue, a) : a \in before[s] /\ after[s] = before[s] \ {a}
            /\ \A s \in (DOMAIN before) \ Successors(queue, a) : after[s] = before[s]
            /\ Range(last_call.returned) =
                  {s \in DOMAIN before : before[s] # {} /\ after[s] = {}}
            /\ Len(last_call.returned) = Cardinality(Range(last_call.returned))
            /\ Successors(queue, a) = {} => (last_call.returned = <<>> /\ after = before)

\* a finish released one successor and left another one waiting
C7_Witness ==
    /\ last_call.op = "finish"
    /\ pc = "live"
    /\ Len(last_call.returned) = 1
    /\ \E s \in Successors(queue, CHOOSE n \in last_call.node : TRUE) :
          queue.dep_map[s] # {}

ReadySet(dep_map) == {a \in DOMAIN dep_map : dep_map[a] = {}}

HintReturnsNothing(q) ==
    \A h \in SuggestNext(q.hints, Candidates(q.dep_map)) : h.item = {}

\* C8: when the ready set R is non-empty and the provider returns nothing,
\* dequeue returns the least element of R and removes it from dep_map; when R
\* is empty, dequeue returns nothing and leaves dep_map unchanged.
C8_DequeueFallback ==
    last_call.op = "dequeue" =>
        LET before == last_call.before
            R      == ReadySet(before.dep_map)
        IN  /\ (R # {} /\ HintReturnsNothing(before)) =>
                  /\ last_call.returned = {First(R)}
                  /\ queue.dep_map = Remove(before.dep_map, First(R))
            /\ R = {} =>
                  /\ last_call.returned = {}
                  /\ queue.dep_map = before.dep_map

\* C22: CargoHints::suggest_next, as called by dequeue, returns on a non-empty
\* candidate list a member of the list that maximises the pair
\* (separate_codegen or kind = Codegen, priority): without separate_codegen a
\* Codegen candidate whenever one is present, with separate_codegen a
\* candidate of maximum priority; on an empty list it returns nothing.
C22_CargoSuggestNext ==
    (last_call.op = "dequeue" /\ last_call.before.hints.kind = "cargo") =>
        LET h    == last_call.before.hints
            C    == ReadySet(last_call.before.dep_map)
            flag(c) == h.separate_codegen \/ c.typ = "Codegen"
        IN  /\ C = {} => last_call.returned = {}
            /\ C # {} =>
                  \E a \in C :
                     /\ last_call.returned = {a}
                     /\ \A c \in C :
                           \/ flag(a) /\ ~flag(c)
                           \/ flag(a) = flag(c) /\ h.priority[c] <= h.priority[a]
                     /\ (~h.separate_codegen /\ \E c \in C : c.typ = "Codegen")
                           => a.typ = "Codegen"
                     /\ h.separate_codegen
                           => \A c \in C : h.priority[c] <= h.priority[a]

\* without separate_codegen a Codegen candidate was returned although a
\* candidate of another kind had a greater priority
C22_Witness ==
    /\ last_call.op = "dequeue"
    /\ last_call.before.hints.kind = "cargo"
    /\ ~last_call.before.hints.separate_codegen
    /\ \E a \in last_call.returned :
          /\ a.typ = "Codegen"
          /\ \E c \in ReadySet(last_call.before.dep_map) :
                /\ c.typ # "Codegen"
                /\ last_call.before.hints.priority[c] >
                      last_call.before.hints.priority[a]

\* the artifacts that directly or transitively depend on a
Dependants(dep_map, a) ==
    {d \in DOMAIN dep_map : a \in Closure(dep_map, dep_map[d])}

KindCost(a) == IF a.typ = "Codegen" THEN 0 ELSE 10

RECURSIVE SumKindCost(_)
SumKindCost(S) == IF S = {} THEN 0
                  ELSE LET x == CHOOSE y \in S : TRUE
                       IN  KindCost(x) + SumKindCost(S \ {x})

CargoBuilt == pc = "live" /\ queue.hints.kind = "cargo"

C31_RepeatScheduleFront ==
    /\ queue.hints.kind = "repeat" =>
          \A i \in 1..Len(queue.hints.order), j \in 1..Len(queue.hints.order) :
              i # j => queue.hints.order[i] # queue.hints.order[j]
    /\ (last_call.op = "dequeue" /\ last_call.before.hints.kind = "repeat") =>
          LET order == last_call.before.hints.order
              C     == ReadySet(last_call.before.dep_map)
          IN  IF order # <<>> /\ Head(order) \in C
              THEN /\ last_call.returned = {Head(order)}
                   /\ queue.hints.order = Tail(order)
              ELSE /\ last_call.returned = {}
                   /\ queue.hints.order = order

\* the front of the stored sequence was not ready, a later element was, and
\* the dequeue returned nothing
C31_Witness ==
    /\ last_call.op = "dequeue"
    /\ last_call.before.hints.kind = "repeat"
    /\ Len(last_call.before.hints.order) = 2
    /\ last_call.before.hints.order[1] \notin ReadySet(last_call.before.dep_map)
    /\ last_call.before.hints.order[2] \in ReadySet(last_call.before.dep_map)
    /\ last_call.returned = {}
    /\ queue.hints.order = last_call.before.hints.order

AcceptedSuccessors(x) == {y \in DOMAIN builder.dep_map : x \in builder.dep_map[y]}

\* reverse_dep_map, read as a total relation
RecordedSuccessors(reverse_dep_map, x) ==
    IF x \in DOMAIN reverse_dep_map THEN reverse_dep_map[x] ELSE {}

\* C14: after any builder queue calls and any dequeue and finish calls on the
\* live queue, reverse_dep_map[x] is the set of artifacts whose accepted
\* dependency set contains x, and a dequeue or finish call leaves
\* reverse_dep_map as it was before the call.
C14_ReverseDepMap ==
    /\ pc = "build" =>
          \A x \in Artifacts :
              RecordedSuccessors(builder.reverse_dep_map, x) = AcceptedSuccessors(x)
    /\ pc \in {"live", "panic"} /\ queue # NoQueue =>
          \A x \in Artifacts :
              RecordedSuccessors(queue.reverse_dep_map, x) = AcceptedSuccessors(x)
    /\ last_call.op \in {"dequeue", "finish"} =>
          queue.reverse_dep_map = last_call.before.reverse_dep_map

\* a finish released a successor that a later dequeue took out of dep_map
C14_Witness ==
    /\ pc = "live"
    /\ last_call.op = "dequeue"
    /\ last_call.returned # {}
    /\ \E x \in Artifacts :
          /\ last_call.returned \subseteq AcceptedSuccessors(x)
          /\ RecordedSuccessors(queue.reverse_dep_map, x) # {}

\* C15: queue(key, deps2) for a key that is already present leaves dep_map and
\* reverse_dep_map of the builder as they were, whatever deps2 is.
C15_RepeatedKeyIgnored ==
    pc = "build" =>
        \A key \in DOMAIN builder.dep_map, deps2 \in SUBSET Artifacts :
            BuilderQueue(builder, key, deps2) = builder

\* a builder holding a key with dependencies, so that deps2 can differ both ways
C15_Witness ==
    /\ pc = "build"
    /\ \E key \in DOMAIN builder.dep_map :
          /\ builder.dep_map[key] # {}
          /\ builder.dep_map[key] # Artifacts
          /\ \E deps2 \in SUBSET Artifacts :
                /\ deps2 # builder.dep_map[key]
                /\ BuilderQueue(builder, key, deps2) = builder

\* some recorded successor of a is gone from dep_map or no longer waits for a
MissingEdge(q, a) ==
    \E s \in Successors(q, a) : s \notin DOMAIN q.dep_map \/ a \notin q.dep_map[s]

\* C16: finish(a) called when some recorded successor of a does not contain a
\* in its dep_map set aborts with a fatal error and does not return.
C16_FinishMissingEdgeIsFatal ==
    (last_call.op = "finish" /\ MissingEdge(last_call.before, CHOOSE n \in last_call.node : TRUE)) =>
        /\ pc = "panic"
        /\ panic \in {"assertion failed: edges.remove(key)",
                      "unwrap on None: dep_map.get_mut(dep)"}

\* finish(a) called a second time for an artifact whose successor still waits
C16_Witness ==
    /\ last_call.op = "finish"
    /\ pc = "panic"
    /\ panic = "assertion failed: edges.remove(key)"
    /\ \E s \in Successors(last_call.before, CHOOSE n \in last_call.node : TRUE) :
          s \in DOMAIN last_call.before.dep_map

---------------------------------------------------------------------------
(* Properties of the N-hints provider *)

\* x is an ancestor of y: y waits, directly or transitively, for x
Ancestor(dep_map, x, y) == y \in DOMAIN dep_map /\ x \in Closure(dep_map, dep_map[y])

\* no element of the list comes before one of its ancestors
TopologicallyConsistent(dep_map, hints) ==
    \A i \in 1..Len(hints), j \in 1..Len(hints) :
        i < j => ~Ancestor(dep_map, hints[j], hints[i])

\* C21: while NHintsProvider::new fills n_hints over an acyclic graph, the
\* list is topologically consistent after every insertion, and the assertion
\* my_last_dependency < my_first_dependant never fails.
C21_HintsTopology ==
    /\ pc # "panic"
    /\ TopologicallyConsistent(builder.dep_map, n_hints)
    /\ (pc = "live" /\ queue.hints.kind = "nhints") =>
          /\ queue.hints.n_hints = n_hints
          /\ Range(n_hints) = {x \in DOMAIN builder.dep_map : x.typ # "Codegen"}
    /\ Len(n_hints) = Cardinality(Range(n_hints))

\* three entries were inserted, each an ancestor of the next, although every
\* one is shorter than the next
C21_Witness ==
    /\ pc = "hints"
    /\ top_n_entries = <<>>
    /\ Len(n_hints) = 3
    /\ \A i \in 1..2 :
          /\ Ancestor(builder.dep_map, n_hints[i], n_hints[i + 1])
          /\ FoldedTimings(timings)[n_hints[i]] < FoldedTimings(timings)[n_hints[i + 1]]

\* pos(c): the least index i with n_hints[i] = c or c an ancestor of
\* n_hints[i]; Len(n_hints) + 1 stands for infinity
Pos(c) ==
    LET at == {i \in 1..Len(n_hints) :
                  n_hints[i] = c \/ Ancestor(builder.dep_map, c, n_hints[i])}
    IN  IF at = {} THEN Len(n_hints) + 1 ELSE CHOOSE i \in at : \A j \in at : i <= j

SuggestedWithoutCodegen ==
    /\ last_call.op = "suggest_next"
    /\ queue.hints.kind = "nhints"
    /\ last_call.candidates # <<>>
    /\ \A c \in Range(last_call.candidates) : c.typ # "Codegen"

\* C27: when no candidate is a Codegen artifact, suggest_next returns a
\* candidate whose pos is the least among all candidates.
C27_MinimalPosition ==
    SuggestedWithoutCodegen =>
        \E c \in last_call.returned :
            /\ c \in Range(last_call.candidates)
            /\ \A d \in Range(last_call.candidates) : Pos(c) <= Pos(d)

\* C28: the duration NHintsProvider ranks (Metadata, p) by is the duration of
\* (Metadata, p) plus the duration of (Codegen, p), counted once, and no
\* Codegen artifact is a hint candidate.
C28_FoldedOnce ==
    (pc = "live" /\ queue.hints.kind = "nhints") =>
        /\ \A k \in DOMAIN queue.hints.timings :
              /\ k.typ # "Codegen"
              /\ queue.hints.timings[k] =
                    IF k.typ = "Metadata" /\ Sibling("Codegen", k) \in DOMAIN timings
                    THEN timings[k] + timings[Sibling("Codegen", k)]
                    ELSE timings[k]
        /\ DOMAIN queue.hints.timings = {k \in DOMAIN timings : k.typ # "Codegen"}
        /\ \A i \in 1..Len(queue.hints.n_hints) : queue.hints.n_hints[i].typ # "Codegen"

---------------------------------------------------------------------------
(* Properties of the simulator *)

IsScheduling(i, a) == log[i].ev = "Scheduling" /\ log[i].artifact = a
IsFinished(i, a)   == log[i].ev = "Finished" /\ log[i].artifact = a

RunningArtifacts == {TaskOf(running_tasks[i]).artifact : i \in Occupied(running_tasks)}

\* C1: every artifact is started only after each artifact of its originally
\* queued predecessor set was itself started and finished, at a virtual time
\* >= the predecessor's end_time; while it runs or after, no predecessor is
\* still queued or occupies a slot.
C1_ScheduleValidity ==
    \A i \in 1..Len(log) :
        log[i].ev = "Scheduling" =>
            \A p \in builder.dep_map[log[i].artifact] :
                /\ \E j \in 1..(i - 1), k \in 1..(i - 1) :
                      /\ j < k
                      /\ IsScheduling(j, p)
                      /\ IsFinished(k, p)
                      /\ log[k].time <= log[i].time
                /\ p \notin DOMAIN queue.dep_map
                /\ p \notin RunningArtifacts

\* an artifact with a predecessor was started at a time > 0
C1_Witness ==
    \E i \in 1..Len(log) :
        /\ log[i].ev = "Scheduling"
        /\ builder.dep_map[log[i].artifact] # {}
        /\ log[i].time > 0

\* C2: the occupied slots never exceed num_threads, running_tasks_count is the
\* number of occupied slots, and the expectation of schedule_new_tasks that an
\* empty slot exists never fails.
C2_SlotBound ==
    /\ Len(running_tasks) \in {0, num_threads}
    /\ Cardinality(Occupied(running_tasks)) <= num_threads
    /\ running_tasks_count = Cardinality(Occupied(running_tasks))
    /\ panic # "There should be at least one empty slot"

\* every slot of a Runner with two slots is occupied
C2_Witness ==
    /\ pc = "schedule"
    /\ num_threads = 2
    /\ running_tasks_count = 2
    /\ DOMAIN queue.dep_map # {}

\* C3: over an acyclic graph whose predecessors are all queued, with a timing
\* for every artifact, num_threads >= 1 and the CargoHints provider, calculate
\* eventually leaves its main loop.
C3_Drains ==
    (/\ pc = "calculate"
     /\ queue.hints.kind = "cargo"
     /\ Acyclic(builder.dep_map)
     /\ PredecessorsQueued(builder.dep_map)
     /\ DOMAIN builder.dep_map \subseteq DOMAIN timings
     /\ num_threads >= 1)
    ~> (pc = "done")

\* calculate returned after running three artifacts, one of them behind another
C3_Witness ==
    /\ pc = "done"
    /\ num_threads >= 1
    /\ Cardinality(DOMAIN builder.dep_map) = 3
    /\ \E a \in DOMAIN builder.dep_map : builder.dep_map[a] # {}
    /\ Len(log) = 6

\* the queue is non-empty, no slot is occupied and dequeue yields nothing
Stuck ==
    /\ ~IsEmpty(queue)
    /\ Occupied(running_tasks) = {}
    /\ \A d \in Dequeue(queue) : d.key = {}

\* C4: when the queue is non-empty, no slot is occupied and dequeue yields
\* nothing, the step aborts with a fatal error.
C4_StuckIsFatal == [][(pc = "schedule" /\ Stuck) => pc' = "panic"]_vars

ResultOf(m) == CHOOSE x \in m : TRUE

Chains(dep_map) ==
    {c \in UNION {[1..n -> DOMAIN dep_map] : n \in 1..Cardinality(DOMAIN dep_map)} :
        \A i \in 1..(Len(c) - 1) : c[i] \in dep_map[c[i + 1]]}

RECURSIVE SumTicks(_)
\* the sum of the durations of a sequence of artifacts, in ticks
SumTicks(c) == IF c = <<>> THEN 0 ELSE timings[Head(c)] + SumTicks(Tail(c))

IntegerMillis == \A a \in DOMAIN timings : timings[a] % TicksPerMilli = 0

\* C6: in a terminating run with integer-millisecond durations the makespan is
\* >= the sum of durations along every dependency chain and makespan *
\* num_threads is >= the sum of all durations.
C6_MakespanBounds ==
    (pc = "done" /\ IntegerMillis) =>
        /\ \A c \in Chains(builder.dep_map) :
              ResultOf(makespan).makespan * TicksPerMilli >= SumTicks(c)
        /\ ResultOf(makespan).makespan * ResultOf(makespan).num_threads * TicksPerMilli
              >= SumTicks(Iter(DOMAIN builder.dep_map))

\* a run of three artifacts of 1 ms each on two slots, two of them in a chain
C6_Witness ==
    /\ pc = "done"
    /\ num_threads = 2
    /\ Cardinality(DOMAIN builder.dep_map) = 3
    /\ \A a \in DOMAIN timings : timings[a] = TicksPerMilli
    /\ \E c \in Chains(builder.dep_map) : Len(c) = 2
    /\ ResultOf(makespan).makespan = 2

\* the slots whose task ends at the least end_time of the running tasks
EndingSlots(tasks) ==
    {i \in Occupied(tasks) : TaskOf(tasks[i]).end_time \in MinEndTime(tasks)}

EndingArtifacts(tasks) == {TaskOf(tasks[i]).artifact : i \in EndingSlots(tasks)}

\* C30: run_next_task_to_completion clears every occupied slot whose end_time
\* is the least one and finishes its artifact in the queue before the step
\* dequeues anything: afterwards the ready set is the set of artifacts whose
\* remaining predecessors all ended at that time, a function of the set of
\* ended tasks and not of their slots; the other slots are left as they were.
C30_SimultaneousFinishes ==
    [][(pc = "calculate" /\ pc' = "schedule" /\ Occupied(running_tasks) # {}) =>
          LET E == EndingSlots(running_tasks)
              F == EndingArtifacts(running_tasks)
          IN  /\ \A i \in 1..Len(running_tasks) :
                    running_tasks'[i] = IF i \in E THEN {} ELSE running_tasks[i]
              /\ Len(running_tasks') = Len(running_tasks)
              /\ running_tasks_count' = running_tasks_count - Cardinality(E)
              /\ DOMAIN queue'.dep_map = DOMAIN queue.dep_map
              /\ \A s \in DOMAIN queue.dep_map :
                    queue'.dep_map[s] = queue.dep_map[s] \ F
              /\ ReadySet(queue'.dep_map) =
                    {s \in DOMAIN queue.dep_map : queue.dep_map[s] \subseteq F}
              /\ current_time' \in MinEndTime(running_tasks)
              /\ \A i \in E : \E k \in (Len(log) + 1)..Len(log') :
                    /\ log'[k].ev = "Finished"
                    /\ log'[k].artifact = TaskOf(running_tasks[i]).artifact
                    /\ log'[k].time \in MinEndTime(running_tasks)]_vars

\* two tasks ended at the same time and an artifact that waited for both of
\* them is ready before the step has dequeued anything
C30_Witness ==
    /\ pc = "schedule"
    /\ Len(log) >= 2
    /\ log[Len(log)].ev = "Finished"
    /\ log[Len(log) - 1].ev = "Finished"
    /\ log[Len(log)].time = log[Len(log) - 1].time
    /\ log[Len(log)].time = current_time
    /\ \E s \in ReadySet(queue.dep_map) :
          builder.dep_map[s] = {log[Len(log)].artifact, log[Len(log) - 1].artifact}


StartTime(a)  == log[CHOOSE i \in 1..Len(log) : IsScheduling(i, a)].time
FinishTime(a) == log[CHOOSE i \in 1..Len(log) : IsFinished(i, a)].time

\* the dependency map of a chain of artifacts of package a, given by its kinds
ChainMap(kinds) ==
    [x \in {Artifact(kinds[i], "a") : i \in 1..Len(kinds)} |->
        {Artifact(kinds[i], "a") : i \in {k \in 1..(Len(kinds) - 1) :
                                            Artifact(kinds[k + 1], "a") = x}}]

\* the timing map that gives every artifact the duration of its kind, ms[kind]
TimingsByKind(ms) == [x \in DOMAIN builder.dep_map |-> ms[x.typ] * TicksPerMilli]

LibBinMillis    == [typ \in ArtifactType |->
                       CASE typ = "Metadata" -> 400 [] typ = "Codegen" -> 600
                         [] typ = "Link" -> 500 [] OTHER -> 0]
ScriptedMillis  == [typ \in ArtifactType |->
                       CASE typ = "BuildScriptBuild" -> 300 [] typ = "BuildScriptRun" -> 100
                         [] typ = "Metadata" -> 400 [] typ = "Codegen" -> 600
                         [] typ = "Link" -> 500]

\* C23: a library and a binary of one package lower to the chain Metadata ->
\* Codegen -> Link, with a build script to BuildScriptBuild -> BuildScriptRun
\* -> Metadata -> Codegen -> Link; the run ends for every num_threads >= 1
\* with a makespan that is the sum of the durations, every artifact starting
\* when its predecessor ends: 1500 ms and 1900 ms with the fixture durations.
C23_ChainMakespan ==
    (graph \in {SingleCrate, SingleCrateWithBuildScript}) =>
        /\ pc # "panic"
        /\ pc \in {"build", "calculate", "schedule", "done"} =>
              builder.dep_map =
                 IF graph = SingleCrate
                 THEN ChainMap(<<"Metadata", "Codegen", "Link">>)
                 ELSE ChainMap(<<"BuildScriptBuild", "BuildScriptRun", "Metadata",
                                 "Codegen", "Link">>)
        /\ pc = "done" =>
              /\ ResultOf(makespan).makespan * TicksPerMilli =
                    SumTicks(Iter(DOMAIN timings))
              /\ \A x \in DOMAIN builder.dep_map :
                    /\ builder.dep_map[x] = {} => StartTime(x) = 0
                    /\ \A p \in builder.dep_map[x] : StartTime(x) = FinishTime(p)
              /\ (graph = SingleCrate /\ timings = TimingsByKind(LibBinMillis))
                    => ResultOf(makespan).makespan = 1500
              /\ (graph = SingleCrateWithBuildScript
                     /\ timings = TimingsByKind(ScriptedMillis))
                    => ResultOf(makespan).makespan = 1900

\* the build script fixture has run to its end on two slots with the fixture
\* durations
C23_Witness ==
    /\ pc = "done"
    /\ graph = SingleCrateWithBuildScript
    /\ num_threads = 2
    /\ timings = TimingsByKind(ScriptedMillis)
    /\ ResultOf(makespan).makespan = 1900
    /\ StartTime(Artifact("Link", "a")) = 1400


TwoLibrariesMillis == [typ \in ArtifactType |->
                          CASE typ = "Metadata" -> 200 [] typ = "Codegen" -> 800
                            [] OTHER -> 0]

\* the run of the two libraries on two slots with 200 ms of Metadata and
\* 800 ms of Codegen each has ended
TwoLibrariesDone ==
    /\ pc = "done"
    /\ graph = TwoLibraries
    /\ num_threads = 2
    /\ timings = TimingsByKind(TwoLibrariesMillis)

\* the part of the schedule that does not involve (Codegen, b)
TwoLibrariesHead ==
    /\ StartTime(Artifact("Metadata", "a")) = 0
    /\ FinishTime(Artifact("Metadata", "a")) = 200
    /\ \A x \in DOMAIN builder.dep_map :
          x # Artifact("Metadata", "a") => StartTime(x) >= 200
    /\ StartTime(Artifact("Codegen", "a")) = 200
    /\ StartTime(Artifact("Metadata", "b")) = 200
    /\ FinishTime(Artifact("Metadata", "b")) = 400
    /\ FinishTime(Artifact("Codegen", "a")) = 1000

\* C24 as stated: (Metadata, a) runs alone from 0 to 200, (Codegen, a) and
\* (Metadata, b) start at 200, (Codegen, b) starts at 1000 after (Codegen, a)
\* has ended and ends at 1800, and the makespan is 1800 ms.
C24_CodegenWaitsForCodegen ==
    TwoLibrariesDone =>
        /\ TwoLibrariesHead
        /\ StartTime(Artifact("Codegen", "b")) = 1000
        /\ FinishTime(Artifact("Codegen", "b")) = 1800
        /\ ResultOf(makespan).makespan = 1800

\* C24 amended: (Metadata, a) runs alone from 0 to 200, (Codegen, a) and
\* (Metadata, b) start at 200, (Codegen, b) starts at 400 when (Metadata, b)
\* has ended, while (Codegen, a) is running, and ends at 1200, and the
\* makespan is 1200 ms.
C24_CodegenWaitsForMetadata ==
    /\ graph = TwoLibraries => pc # "panic"
    /\ TwoLibrariesDone =>
          /\ TwoLibrariesHead
          /\ StartTime(Artifact("Codegen", "b")) = 400
          /\ FinishTime(Artifact("Codegen", "b")) = 1200
          /\ ResultOf(makespan).makespan = 1200

\* the run of the two libraries has ended and (Codegen, b) was started while
\* (Codegen, a) was running
C24_Witness ==
    /\ TwoLibrariesDone
    /\ builder.dep_map[Artifact("Codegen", "b")] = {Artifact("Metadata", "b")}
    /\ StartTime(Artifact("Codegen", "b")) < FinishTime(Artifact("Codegen", "a"))


\* the end_time of every task that ran
EndTimes == {log[i].time : i \in {j \in 1..Len(log) : log[j].ev = "Finished"}}

\* C13: whenever calculate leaves its main loop, running_tasks_count is 0 (the
\* assert_eq on busy_slots does not fail), the queue is empty and the reported
\* makespan is the greatest end_time of a task that ran, 0 if none ran.
C13_LoopExit ==
    /\ panic # "assertion failed: busy_slots == 0"
    /\ pc = "done" =>
          /\ running_tasks_count = 0
          /\ IsEmpty(queue)
          /\ \A m \in makespan :
                /\ \A e \in EndTimes : e <= m.makespan
                /\ m.makespan \in EndTimes \cup {0}
                /\ EndTimes = {} => m.makespan = 0
          /\ makespan # {}

\* calculate returned after two tasks ran at the same time and ended at different times
C13_Witness ==
    /\ pc = "done"
    /\ Cardinality(EndTimes) >= 2
    /\ \E i \in 1..Len(log), j \in 1..Len(log) :
          /\ i < j
          /\ log[i].ev = "Scheduling" /\ log[j].ev = "Scheduling"
          /\ \A k \in i..j : log[k].ev = "Scheduling"

\* the Scheduling events of a log: which artifact started when
Starts(l) == SelectSeq(l, IsSchedulingEvent)

\* C12: a run with RepeatSchedule(O), O the dequeue order of a completed
\* CargoHints run on the same graph, timings and num_threads, terminates,
\* starts the artifacts in order O at the same start times and reports the
\* same makespan.
C12_ReplayEqualsOriginal ==
    /\ [](run = 3 =>
            /\ pc # "panic"
            /\ \A f \in first_run :
                  /\ Len(Starts(log)) <= Len(Starts(f.log))
                  /\ \A i \in 1..Len(Starts(log)) : Starts(log)[i] = Starts(f.log)[i]
                  /\ pc = "done" =>
                        /\ Starts(log) = Starts(f.log)
                        /\ \A m \in makespan : m.makespan = f.makespan.makespan
                        /\ makespan # {})
    /\ (run = 3) ~> (run = 3 /\ pc = "done")

\* a replay returned after the first run had started an artifact that is not
\* the least ready one, and had seen a dequeue with nothing ready
C12_Witness ==
    /\ run = 3
    /\ pc = "done"
    /\ Len(Starts(log)) = 3
    /\ \E i \in 1..2 : ArtifactLt(Starts(log)[i + 1].artifact, Starts(log)[i].artifact)
    /\ \E i \in 1..2 : Starts(log)[i].time < Starts(log)[i + 1].time
    /\ num_threads = 2

\* the Runner has ended a run of k independent artifacts on two slots, the
\* durations being, in some order, the milliseconds of ms
IndependentDone(ms) ==
    /\ pc = "done"
    /\ num_threads = 2
    /\ Cardinality(DOMAIN timings) = Cardinality(ms)
    /\ {timings[x] : x \in DOMAIN timings} = {d * TicksPerMilli : d \in ms}
    /\ \A x \in DOMAIN builder.dep_map : builder.dep_map[x] = {} /\ x.typ # "Codegen"

\* C25: four independent artifacts that are not Codegen, of durations 10, 5,
\* 4 and 1, on two slots with the N-hints provider: the makespan is 10
\* whichever artifact has which duration.
C25_FourIndependent ==
    (IndependentDone({10, 5, 4, 1}) /\ queue.hints.kind = "nhints") =>
        ResultOf(makespan).makespan = 10

\* the artifact of least key is the longest and the run with N-hints ended
C25_Witness ==
    /\ IndependentDone({10, 5, 4, 1})
    /\ queue.hints.kind = "nhints"
    /\ timings[First(DOMAIN timings)] = 10 * TicksPerMilli
    /\ ResultOf(makespan).makespan = 10

\* C26 as stated: three independent artifacts of durations 10, 5 and 1 on two
\* slots give makespan 11 with the Cargo provider and with the N-hints
\* provider.
C26_ThreeIndependentEleven ==
    IndependentDone({10, 5, 1}) => ResultOf(makespan).makespan = 11

\* C26 amended: for artifacts that are not Codegen the makespan is 10 with the
\* N-hints provider; with the Cargo provider it is 11 when the artifact of
\* duration 10 has the least key of the three, and 10 otherwise.
C26_ThreeIndependent ==
    IndependentDone({10, 5, 1}) =>
        ResultOf(makespan).makespan =
            IF /\ queue.hints.kind = "cargo"
               /\ timings[First(DOMAIN timings)] = 10 * TicksPerMilli
            THEN 11 ELSE 10

\* a Cargo run of the three artifacts in which the longest one had to wait
C26_Witness ==
    /\ IndependentDone({10, 5, 1})
    /\ queue.hints.kind = "cargo"
    /\ ResultOf(makespan).makespan = 11
    /\ \E x \in DOMAIN timings : timings[x] = 10 * TicksPerMilli /\ StartTime(x) = 1

\* the artifacts whose duration is less than a millisecond
ZeroDuration == {x \in DOMAIN timings : Millis(timings[x]) = 0}

\* C32: during a run current_time never decreases; a step with an occupied
\* slot sets it to the least end_time, which is not before the previous
\* current_time; a task of 0 ms is finished at the time it was started, in a
\* later step than the one that started it; and a run with such tasks over
\* an acyclic, fully queued graph still leaves the loop of calculate.
C32_TimeMonotone ==
    /\ [][(pc \in {"calculate", "schedule"}) => current_time' >= current_time]_vars
    /\ [][(pc = "calculate" /\ pc' = "schedule" /\ Occupied(running_tasks) # {}) =>
              /\ current_time' \in MinEndTime(running_tasks)
              /\ \A i \in Occupied(running_tasks) :
                    current_time <= TaskOf(running_tasks[i]).end_time]_vars
    /\ [](\A x \in ZeroDuration :
              /\ x \in RunningArtifacts =>
                    \E i \in Occupied(running_tasks) :
                        /\ TaskOf(running_tasks[i]).artifact = x
                        /\ TaskOf(running_tasks[i]).end_time = current_time
              /\ \A i \in 1..Len(log) :
                    IsFinished(i, x) =>
                        /\ log[i].time = StartTime(x)
                        /\ \E j \in 1..(i - 1) : IsScheduling(j, x))
    /\ ((/\ pc = "calculate"
          /\ ZeroDuration # {}
          /\ queue.hints.kind = "cargo"
          /\ Acyclic(builder.dep_map)
          /\ PredecessorsQueued(builder.dep_map)
          /\ num_threads >= 1)
         ~> (pc = "done"))

\* a task of 0 ms was started after time 0 and finished at the same time, and
\* an artifact that waited for it was started at that time too
C32_Witness ==
    /\ pc = "done"
    /\ \E x \in ZeroDuration, y \in DOMAIN builder.dep_map :
          /\ x \in builder.dep_map[y]
          /\ StartTime(x) > 0
          /\ FinishTime(x) = StartTime(x)
          /\ StartTime(y) = StartTime(x)

\* C34: with CargoHints, when the fill phase of a step ends either every slot
\* is occupied or no queued artifact has an empty predecessor set; and every
\* artifact was started at time 0 or at the time some task finished before it.
C34_NoIdleSlot ==
    /\ [][(pc = "schedule" /\ pc' = "calculate" /\ queue.hints.kind = "cargo") =>
              \/ \A i \in 1..Len(running_tasks') : running_tasks'[i] # {}
              \/ ReadySet(queue'.dep_map) = {}]_vars
    /\ [](queue.hints.kind = "cargo" =>
              \A i \in 1..Len(log) :
                  log[i].ev = "Scheduling" =>
                      \/ log[i].time = 0
                      \/ \E j \in 1..(i - 1) :
                            log[j].ev = "Finished" /\ log[j].time = log[i].time)

\* a fill phase ended with one slot occupied, one idle and only artifacts
\* that wait for a predecessor left in the queue, after an artifact was
\* started later than time 0
C34_Witness ==
    /\ pc = "calculate"
    /\ queue.hints.kind = "cargo"
    /\ \E i \in 1..Len(running_tasks) : running_tasks[i] = {}
    /\ \E i \in 1..Len(running_tasks) : running_tasks[i] # {}
    /\ ~IsEmpty(queue)
    /\ ReadySet(queue.dep_map) = {}
    /\ PredecessorsQueued(builder.dep_map)
    /\ \E i \in 1..Len(log) : log[i].ev = "Scheduling" /\ log[i].time > 0

\* the positions of the trace at which artifact a was started, and finished
SchedulingEvents(a) == {i \in 1..Len(log) : IsScheduling(i, a)}
FinishedEvents(a) == {i \in 1..Len(log) : IsFinished(i, a)}

\* C35: in every run each queued artifact is dequeued at most once, is in
\* at most one slot, and is passed to finish at most once; the length of the
\* queue is the number of queued artifacts not yet dequeued, and the finish
\* phase of a step does not change it; when calculate returns every queued
\* artifact has been started exactly once and finished exactly once.
C35_ExactlyOnce ==
    /\ [](queue.hints.kind # "none" =>
              /\ \A a \in Artifacts :
                    /\ Cardinality(SchedulingEvents(a)) <= 1
                    /\ Cardinality(FinishedEvents(a)) <= 1
                    /\ Cardinality({i \in Occupied(running_tasks) :
                                      TaskOf(running_tasks[i]).artifact = a}) <= 1
                    /\ SchedulingEvents(a) # {} => a \in DOMAIN builder.dep_map
              /\ QueueLen(queue) =
                    Cardinality({a \in DOMAIN builder.dep_map : SchedulingEvents(a) = {}})
              /\ pc = "done" =>
                    \A a \in DOMAIN builder.dep_map :
                        /\ Cardinality(SchedulingEvents(a)) = 1
                        /\ Cardinality(FinishedEvents(a)) = 1)
    /\ [][(pc = "calculate" /\ pc' \in {"schedule", "panic"}) =>
              QueueLen(queue') = QueueLen(queue)]_vars

\* calculate returned after three artifacts, two of them running at the same
\* time, were each started once and finished once
C35_Witness ==
    /\ pc = "done"
    /\ Cardinality(DOMAIN builder.dep_map) = 3
    /\ Len(log) = 6
    /\ \E i \in 1..(Len(log) - 1) :
          log[i].ev = "Scheduling" /\ log[i + 1].ev = "Scheduling"

=============================================================================
